---- MODULE Spec2Model ----
(***************************************************************************)
(* The scraping pipeline of app/services: one producer that reads the      *)
(* index table, N scraper workers that take candidates from item_queue,    *)
(* and a storage worker that takes accepted items from storage_queue.      *)
(*                                                                         *)
(* Spec        scrape_items_with_async_storage (scraping.py) with its      *)
(*             producer, consumer and storage_worker tasks.                *)
(* FairSpec    Spec with the fairness of the asyncio event loop.           *)
(* SpecStorage StorageWorker.run (workers.py) fed through storage_queue.   *)
(*                                                                         *)
(* A candidate is identified by the index (1-based) of its table row.      *)
(*                                                                         *)
(* The source holds modules of different revisions, so the shape of what   *)
(* one module hands to another is an input of the run: the type of the     *)
(* candidates (item_type), the parameters of the detailed extractor the    *)
(* workers call (extractor_params), the call scrape_only makes             *)
(* (scrape_call), the name main.py imports (has_format_item_display) and   *)
(* the fields the Settings object has among those the run reads without    *)
(* their being declared in config.py (settings_fields).                    *)
(* SourceWiring gives the values of the repository as it is.               *)
(***************************************************************************)
EXTENDS Integers, Sequences, FiniteSets, TLC

MaxRows == 3

MaxWorkers == 2

MaxFeed == 23

STORAGE_BATCH_SIZE == 10

NoneVal == 0

PrimaryPage == 0

RowKinds == {"skin", "sticker", "charm"}

VARIABLES
    workers,          \* number of scraper workers of the run
    table,            \* rows of the index table, by kind
    limit,            \* limit argument, NoneVal when absent
    rowDone,          \* rows whose _extract_single_item task has completed
    parseLog,         \* completion order of the row tasks
    items,            \* list returned by extract_items
    prodPc, prodIdx, prodSent,
    item_queue,
    wPc, wItem,
    results, discarded_items,
    storage_queue,
    stPc, stItem, saved_count, batch,
    backend,          \* batches handed to save_items, with their outcome
    mainPc,
    deqLog,           \* history: candidates in the order they were dequeued
    inProgress,       \* history: per worker, candidates taken and not yet recorded
    outcome,          \* history: result of each candidate's extraction
    fed,              \* SpecStorage: items put on storage_queue so far
    item_type,        \* type of the entries extract_items returns
    exclusion_filters,\* exclusion_filters of the run, as the row kinds they prefix
    extractor_params, \* parameters of the extract_detailed_item the workers call
    extractor_call,   \* SpecItem: how extract_detailed_item is called
    scrape_call,      \* method and arguments of the call made by scrape_only
    has_format_item_display, \* SpecRun: scraping.py defines _format_item_display
    settings_fields,  \* SpecRun: fields of settings beyond those of config.py
    skin,             \* SpecItem: the skin argument, its type and its URLs
    dPc,              \* SpecItem: position in extract_detailed_item
    navLog,           \* SpecItem: the navigations started, with their page
    buff_data,        \* SpecItem: result of _extract_buff_data
    steam_data,       \* SpecItem: result of _extract_steam_data
    shown,            \* SpecItem: total volume each market page shows
    detailed_data,    \* SpecItem: value extract_detailed_item returns
    script,           \* SpecNav: how the gotos of the market URL end
    bPc, sPc,         \* SpecNav: position in extract_buff_data, extract_steam_data
    bLog, sLog,       \* SpecNav: the page operations each extractor has made
    bSeen,            \* SpecNav: the rows extract_buff_data has read
    bResult, sResult, \* SpecNav: what each extractor returns
    rowsRead,         \* SpecNav: the listing rows each extractor was shown
    sSeen,            \* SpecNav: the listings extract_steam_data has kept
    concurrent,       \* SpecRun: value of the --concurrent option
    async_storage,    \* SpecRun: async_storage argument of scrape_only
    save_to_db,       \* SpecRun: save_to_db argument of scrape_only
    runPc,            \* SpecRun: position in the scrape command
    pageLog,          \* SpecRun: pages created and closed, in order
    json_data,        \* SpecRun: what was written to the output file
    filterLog,        \* SpecRun: the filter steps run, in order
    filterFails,      \* SpecRun: the filter steps whose UI actions raise
    feeIn,            \* SpecFees: arguments of the rules.py functions
    feeOut,           \* SpecFees: what the functions returned
    feeDone           \* SpecFees: the functions that have been called

wiringVars == <<item_type, exclusion_filters, extractor_params, extractor_call,
               scrape_call, has_format_item_display, settings_fields>>
tableVars == <<workers, table, limit, wiringVars>>
itemVars == <<skin, dPc, navLog, buff_data, steam_data, shown, detailed_data>>
navVars == <<script, bPc, sPc, bLog, sLog, bSeen, bResult, sResult, rowsRead,
            sSeen>>
filterVars == <<filterLog, filterFails>>
runVars == <<concurrent, async_storage, save_to_db, runPc, pageLog, json_data,
            filterVars>>
feeVars == <<feeIn, feeOut, feeDone>>
prodVars == <<rowDone, parseLog, items, prodPc, prodIdx, prodSent>>
workerVars == <<wPc, wItem, results, discarded_items, deqLog, inProgress,
               outcome>>
storeVars == <<stPc, stItem, saved_count, batch, backend>>
vars == <<tableVars, prodVars, item_queue, workerVars, storage_queue,
          storeVars, mainPc, fed, itemVars, navVars, runVars, feeVars>>

pipelineVars == <<tableVars, prodVars, item_queue, workerVars, storage_queue,
                  storeVars, mainPc, fed>>

Workers == 0 .. (workers - 1)

Rows == 1 .. Len(table)

Range(s) == {s[i] : i \in 1 .. Len(s)}

Count(x, s) == Cardinality({i \in 1 .. Len(s) : s[i] = x})

RECURSIVE SeqFilter(_, _)
SeqFilter(s, keep) ==
    IF s = <<>> THEN <<>>
    ELSE IF Head(s) \in keep THEN <<Head(s)>> \o SeqFilter(Tail(s), keep)
    ELSE SeqFilter(Tail(s), keep)

UpTo(n) == [i \in 1 .. n |-> i]

(***************************************************************************)
(* What the modules hand to each other                                     *)
(***************************************************************************)

\* the types of the entries of the list extract_items returns: the Skin of
\* domain/models.py that ItemExtractor builds, and the dict that the
\* producer and the consumer subscript
ItemTypes == {"Skin", "dict"}

\* the parameters of extract_detailed_item: (page, skin) of
\* DetailedItemExtractor, and (page, item, buff_page, steam_page, worker_id)
\* as the consumer passes them
ExtractorParams == {"page_skin", "page_item_pages"}

\* the exclusion_filters argument: [] (the default) or ["Charm |"]
FilterOptions == {{}, {"charm"}}

\* a call binds unless it passes keywords the function does not have
CallBinds(call, params) == ~(call = "keywords" /\ params = "page_skin")

\* scrape_only calls scrape_items(limit=, concurrent_workers=,
\* exclusion_filters=, async_storage=)
CallAsWritten == "scrape_items(async_storage=)"

\* the method a call without the async_storage keyword reaches: the one
\* that keeps a storage worker when the flag is set
Dispatch(flag) ==
    IF flag THEN "scrape_items_with_async_storage" ELSE "scrape_items"

\* scrape_items has no async_storage parameter
ScrapeCallBinds == scrape_call # CallAsWritten

\* the fields of settings that scrape_only assigns (settings.headless) and
\* that ScrapingService(settings) reads (settings.output_dir, in
\* FileSaver.__init__) before the scraping method is called
SettingsAtStart == {"headless", "output_dir"}

\* the fields of settings the run uses that Settings does not declare: those
\* of SettingsAtStart, settings.target_url of browser.navigate and
\* settings.save_debug_info of save_debug_files
SettingsRead == SettingsAtStart \cup {"target_url", "save_debug_info"}

\* the Settings of the runs followed: that of config.py, then with the
\* fields the run needs, in the order it needs them
SettingsOptions ==
    {{}, SettingsAtStart, SettingsAtStart \cup {"target_url"}, SettingsRead}

\* assigning a field a pydantic model does not declare raises ValueError,
\* reading one raises AttributeError
SettingsRaise(fields) == ~(fields \subseteq settings_fields)

\* the repository as it is: extract_items returns Skin objects, the
\* consumer calls DetailedItemExtractor.extract_detailed_item with keywords,
\* scrape_only passes async_storage, scraping.py has no
\* _format_item_display, Settings declares none of the fields of
\* SettingsRead
SourceWiring ==
    /\ item_type = "Skin"
    /\ extractor_params = "page_skin"
    /\ extractor_call = "keywords"
    /\ scrape_call = CallAsWritten
    /\ ~has_format_item_display
    /\ settings_fields = {}

(***************************************************************************)
(* ItemExtractor                                                           *)
(***************************************************************************)

\* every kind of row the index table can show
IndexKinds == RowKinds \cup {"musickit", "case", "souvenir"}

\* item_name.lower() of a row of each kind, as its sequence of words
NameOf(kind) ==
    CASE kind = "skin" -> <<"ak-47", "|", "redline">>
      [] kind = "sticker" -> <<"sticker", "|", "foo">>
      [] kind = "charm" -> <<"charm", "|", "bar">>
      [] kind = "musickit" -> <<"music", "kit", "|", "baz">>
      [] kind = "case" -> <<"case", "7">>
      [] kind = "souvenir" -> <<"souvenir", "|", "sticker", "music">>

\* item_name.lower().startswith("sticker")
StartsWithSticker(name) == name # <<>> /\ name[1] = "sticker"

\* "music kit" in item_name.lower()
ContainsMusicKit(name) ==
    \E i \in 1 .. (Len(name) - 1) : name[i] = "music" /\ name[i + 1] = "kit"

\* "|" in item_name
ContainsPipe(name) == \E i \in 1 .. Len(name) : name[i] = "|"

\* Validation filters that forget the music kits.
HardExcludedNoMusicKit(kind) ==
    \/ StartsWithSticker(NameOf(kind))
    \/ ~ContainsPipe(NameOf(kind))

\* _extract_single_item returns None for a row of the hard exclusion set:
\* the three validation filters, tested in the order of the code.
HardExcluded(kind) ==
    \/ StartsWithSticker(NameOf(kind))
    \/ ContainsMusicKit(NameOf(kind))
    \/ ~ContainsPipe(NameOf(kind))

\* rows[:limit] if limit else rows
RowsToProcess == IF limit # NoneVal /\ limit < Len(table) THEN 1 .. limit ELSE Rows

ValidRows == {r \in RowsToProcess : ~HardExcluded(table[r])}

\* A gather that collected the results as the tasks complete.
GatherAsCompleted == SeqFilter(parseLog, ValidRows)

\* asyncio.gather returns the results in the order of the tasks, and the
\* loop over them appends the valid ones in that order.
GatherResults == SeqFilter(UpTo(Len(table)), ValidRows)

\* One row task completes; the tasks run concurrently.
ParseRow(r) ==
    /\ prodPc = "extract"
    /\ r \in RowsToProcess \ rowDone
    /\ rowDone' = rowDone \cup {r}
    /\ parseLog' = Append(parseLog, r)
    /\ UNCHANGED <<tableVars, runVars, feeVars, navVars, itemVars, items, prodPc, prodIdx, prodSent, item_queue,
                   workerVars, storage_queue, storeVars, mainPc, fed>>

\* item["item_name"] on an entry of items: a Skin is not subscriptable
SubscriptRaises == item_type = "Skin"

\* the exclusion_filters comprehension raises TypeError at its first item:
\* any() reads item["item_name"] as soon as there is a prefix to test
FilterRaises(its) == SubscriptRaises /\ exclusion_filters # {} /\ its # <<>>

\* extract_items returns once every row task has completed, and the
\* producer builds filtered_items, which ends the task when it raises.
ExtractItemsReturn ==
    /\ prodPc = "extract"
    /\ rowDone = RowsToProcess
    /\ items' = GatherResults
    /\ parseLog' = <<>>
    /\ prodPc' = IF FilterRaises(GatherResults) THEN "failed" ELSE "put"
    /\ UNCHANGED <<tableVars, runVars, feeVars, navVars, itemVars, rowDone, prodIdx, prodSent, item_queue,
                   workerVars, storage_queue, storeVars, mainPc, fed>>

\* extract_items logs and re-raises: the producer task ends with the error.
ExtractItemsRaise ==
    /\ prodPc = "extract"
    /\ prodPc' = "failed"
    /\ parseLog' = <<>>
    /\ UNCHANGED <<tableVars, runVars, feeVars, navVars, itemVars, rowDone, items, prodIdx, prodSent, item_queue,
                   workerVars, storage_queue, storeVars, mainPc, fed>>

(***************************************************************************)
(* producer                                                                *)
(***************************************************************************)

\* items kept by the exclusion_filters comprehension; the name is not bound
\* when the comprehension raises
filtered_items ==
    IF FilterRaises(items) THEN <<>>
    ELSE SeqFilter(items, {r \in Rows : table[r] \notin exclusion_filters})

\* item_queue = asyncio.Queue(): maxsize 0, a put never waits.
QueueHasRoom(q) == TRUE

\* number of sentinels the producer puts: range(workers)
SentinelsDue == workers

\* `for item in filtered_items` has ended when `for _ in range(workers)`
\* starts
CandidatesAllPut == prodIdx = Len(filtered_items)

ProducerPut ==
    /\ prodPc = "put"
    /\ prodIdx < Len(filtered_items)
    /\ QueueHasRoom(item_queue)
    /\ item_queue' = Append(item_queue, filtered_items[prodIdx + 1])
    /\ prodIdx' = prodIdx + 1
    /\ UNCHANGED <<tableVars, runVars, feeVars, navVars, itemVars, rowDone, parseLog, items, prodPc, prodSent,
                   workerVars, storage_queue, storeVars, mainPc, fed>>

ProducerPutSentinel ==
    /\ prodPc = "put"
    /\ CandidatesAllPut
    /\ prodSent < SentinelsDue
    /\ QueueHasRoom(item_queue)
    /\ item_queue' = Append(item_queue, NoneVal)
    /\ prodSent' = prodSent + 1
    /\ UNCHANGED <<tableVars, runVars, feeVars, navVars, itemVars, rowDone, parseLog, items, prodPc, prodIdx,
                   workerVars, storage_queue, storeVars, mainPc, fed>>

ProducerFinish ==
    /\ prodPc = "put"
    /\ prodIdx = Len(filtered_items)
    /\ prodSent = SentinelsDue
    /\ prodPc' = "done"
    /\ UNCHANGED <<tableVars, runVars, feeVars, navVars, itemVars, rowDone, parseLog, items, prodIdx, prodSent,
                   item_queue, workerVars, storage_queue, storeVars, mainPc,
                   fed>>

\* history: the candidates put on item_queue so far, in put order
enqLog == SubSeq(filtered_items, 1, prodIdx)

(***************************************************************************)
(* consumer (scraper worker)                                               *)
(***************************************************************************)

\* the run keeps a storage worker: it goes through
\* scrape_items_with_async_storage, otherwise through scrape_items
AsyncStorage == scrape_call = "scrape_items_with_async_storage"

\* A worker that took the next entry while an item is still in progress.
MayDequeueEager(w) == wPc[w] \notin {"done", "failed", "unstarted"}

\* The worker reads the queue only at the top of its loop.
MayDequeue(w) == wPc[w] = "get"

\* item = await item_queue.get(): a sentinel ends the loop, a candidate is
\* processed.
WorkerGet(w) ==
    /\ MayDequeue(w)
    /\ item_queue # <<>>
    /\ item_queue' = Tail(item_queue)
    /\ IF Head(item_queue) = NoneVal
       THEN /\ wPc' = [wPc EXCEPT ![w] = "done"]
            /\ UNCHANGED <<wItem, deqLog, inProgress>>
       ELSE /\ wItem' = [wItem EXCEPT ![w] = Head(item_queue)]
            /\ deqLog' = Append(deqLog, Head(item_queue))
            /\ inProgress' = [inProgress EXCEPT
                                ![w] = @ \cup {Head(item_queue)}]
            /\ wPc' = [wPc EXCEPT ![w] = "extract"]
    /\ UNCHANGED <<tableVars, runVars, feeVars, navVars, itemVars, prodVars, results, discarded_items, outcome,
                   storage_queue, storeVars, mainPc, fed>>

\* what a call of extract_detailed_item can give the worker: None, a
\* discard record, a dict of the fields of ScrapedItem, a MarketData, or an
\* exception
ReturnNone == [kind |-> "None", reason |-> ""]

ReturnDiscarded == [kind |-> "discarded", reason |-> "discard_reason"]

ReturnDict == [kind |-> "dict", reason |-> ""]

ReturnMarketData == [kind |-> "MarketData", reason |-> ""]

Raised(error) == [kind |-> error, reason |-> ""]

\* the try block of the consumer up to the value of the call: the log line
\* subscripts the candidate, the call passes buff_page, steam_page and
\* worker_id, and an extractor that takes them returns what it will
CallResults ==
    IF SubscriptRaises THEN {Raised("TypeError")}
    ELSE IF ~CallBinds("keywords", extractor_params)
    THEN {Raised("TypeError")}
    ELSE {ReturnNone, ReturnDiscarded, ReturnDict, ReturnMarketData,
          Raised("Exception")}

\* what the worker makes of the value: `if detailed_data:`, then
\* `detailed_data.get("discarded")`, which a MarketData does not have, then
\* ScrapedItem(**detailed_data)
WorkerOutcome(d) ==
    CASE d.kind = "None" -> "none"
      [] d.kind = "discarded" -> "discard"
      [] d.kind = "dict" -> "data"
      [] OTHER -> "exc"

\* A worker that keeps accepted items in results only.
RecordUnsent(w, o) ==
    /\ outcome' = [outcome EXCEPT ![wItem[w]] = o]
    /\ inProgress' = [inProgress EXCEPT ![w] = @ \ {wItem[w]}]
    /\ wItem' = [wItem EXCEPT ![w] = NoneVal]
    /\ results' = IF o = "data" THEN Append(results, wItem[w]) ELSE results
    /\ discarded_items' = IF o = "discard"
                          THEN Append(discarded_items, wItem[w])
                          ELSE discarded_items
    /\ storage_queue' = storage_queue
    /\ wPc' = [wPc EXCEPT ![w] = IF o # "exc" THEN "sleep"
                                 ELSE IF SubscriptRaises THEN "failed"
                                 ELSE "get"]

\* What the worker does with the outcome: a discard record goes to
\* discarded_items, data goes to results and, in the consumer of
\* scrape_items_with_async_storage, to storage_queue; nothing is recorded
\* for a falsy result.  An exception skips the delay: the handler logs
\* item["item_name"], which raises in its turn when the candidate is not
\* subscriptable, and the task ends with that error after task_done().
Record(w, o) ==
    /\ outcome' = [outcome EXCEPT ![wItem[w]] = o]
    /\ inProgress' = [inProgress EXCEPT ![w] = @ \ {wItem[w]}]
    /\ wItem' = [wItem EXCEPT ![w] = NoneVal]
    /\ results' = IF o = "data" THEN Append(results, wItem[w]) ELSE results
    /\ discarded_items' = IF o = "discard"
                          THEN Append(discarded_items, wItem[w])
                          ELSE discarded_items
    /\ storage_queue' = IF o = "data" /\ AsyncStorage
                        THEN Append(storage_queue, wItem[w])
                        ELSE storage_queue
    /\ wPc' = [wPc EXCEPT ![w] = IF o # "exc" THEN "sleep"
                                 ELSE IF SubscriptRaises THEN "failed"
                                 ELSE "get"]

\* The body of the loop for one candidate, up to the delay or to the
\* handlers.
WorkerProcess(w) ==
    /\ wPc[w] = "extract"
    /\ \E d \in CallResults : Record(w, WorkerOutcome(d))
    /\ UNCHANGED <<tableVars, runVars, feeVars, navVars, itemVars, prodVars, item_queue, deqLog, storeVars,
                   mainPc, fed>>

\* The anti-ban sleep ends; finally: item_queue.task_done().
WorkerSleepDone(w) ==
    /\ wPc[w] = "sleep"
    /\ wPc' = [wPc EXCEPT ![w] = "get"]
    /\ UNCHANGED <<tableVars, runVars, feeVars, navVars, itemVars, prodVars, item_queue, wItem, results,
                   discarded_items, deqLog, inProgress, outcome,
                   storage_queue, storeVars, mainPc, fed>>

(***************************************************************************)
(* storage_worker of scrape_items_with_async_storage                       *)
(***************************************************************************)

StorageGet ==
    /\ stPc = "get"
    /\ storage_queue # <<>>
    /\ storage_queue' = Tail(storage_queue)
    /\ IF Head(storage_queue) = NoneVal
       THEN stPc' = "done" /\ UNCHANGED stItem
       ELSE stPc' = "save" /\ stItem' = Head(storage_queue)
    /\ UNCHANGED <<tableVars, runVars, feeVars, navVars, itemVars, prodVars, item_queue, workerVars, saved_count,
                   batch, backend, mainPc, fed>>

\* save_items([item]) returns or raises; a failure is logged.
StorageSaved ==
    /\ stPc = "save"
    /\ \E ok \in BOOLEAN :
          /\ backend' = Append(backend, [items |-> <<stItem>>, ok |-> ok])
          /\ saved_count' = IF ok THEN saved_count + 1 ELSE saved_count
    /\ stPc' = "get"
    /\ stItem' = NoneVal
    /\ UNCHANGED <<tableVars, runVars, feeVars, navVars, itemVars, prodVars, item_queue, workerVars,
                   storage_queue, batch, mainPc, fed>>

(***************************************************************************)
(* scrape_items_with_async_storage: the awaits after the tasks are created *)
(***************************************************************************)

\* A run that signals the storage worker as soon as the producer is done.
ConsumersNotAwaited == TRUE

\* await asyncio.gather(*consumer_tasks)
ConsumersFinished == \A w \in Workers : wPc[w] = "done"

\* A run that waits for the scraper workers before it looks at the
\* producer task.
MainAwaitWorkersFirst ==
    /\ mainPc = "await_producer"
    /\ prodPc \in {"done", "failed"}
    /\ ConsumersFinished
    /\ mainPc' = IF prodPc = "done" THEN "gather" ELSE "aborted"
    /\ UNCHANGED <<tableVars, runVars, feeVars, navVars, itemVars, prodVars,
                   item_queue, workerVars, storage_queue, storeVars, fed>>

\* await producer_task: it returns, or raises the exception the producer
\* ended with
MainAwaitProducer ==
    /\ mainPc = "await_producer"
    /\ prodPc \in {"done", "failed"}
    /\ mainPc' = IF prodPc = "done" THEN "gather" ELSE "aborted"
    /\ UNCHANGED <<tableVars, runVars, feeVars, navVars, itemVars, prodVars, item_queue, workerVars,
                   storage_queue, storeVars, fed>>

\* a consumer task has ended with an exception
ConsumerFailed == \E w \in Workers : wPc[w] = "failed"

\* await asyncio.gather(*consumer_tasks) raises the exception of the first
\* consumer task that fails; no sentinel is put on storage_queue
MainGatherRaises ==
    /\ mainPc = "gather"
    /\ ConsumerFailed
    /\ mainPc' = "aborted"
    /\ UNCHANGED <<tableVars, runVars, feeVars, navVars, itemVars, prodVars,
                   item_queue, workerVars, storage_queue, storeVars, fed>>

\* gather returns, then await storage_queue.put(None)
MainSignalStorage ==
    /\ mainPc = "gather"
    /\ AsyncStorage
    /\ ConsumersFinished
    /\ storage_queue' = Append(storage_queue, NoneVal)
    /\ mainPc' = "await_storage"
    /\ UNCHANGED <<tableVars, runVars, feeVars, navVars, itemVars, prodVars, item_queue, workerVars, storeVars,
                   fed>>

\* await storage_task, then the worker pages are closed
MainAwaitStorage ==
    /\ mainPc = "await_storage"
    /\ stPc = "done"
    /\ mainPc' = "done"
    /\ UNCHANGED <<tableVars, runVars, feeVars, navVars, itemVars, prodVars, item_queue, workerVars,
                   storage_queue, storeVars, fed>>

(***************************************************************************)
(* Specification of the pipeline                                           *)
(***************************************************************************)

\* what the extractors return when they have no data (None)
NilSnapshot == [ok |-> FALSE, selling_items |-> <<>>, trade_records |-> <<>>]

\* no call of extract_detailed_item is being followed
ItemIdle ==
    /\ skin = [type |-> "Skin", buff_url |-> FALSE, steam_url |-> FALSE]
    /\ extractor_call = "keywords"
    /\ dPc = "idle"
    /\ navLog = <<>>
    /\ buff_data = NilSnapshot
    /\ steam_data = NilSnapshot
    /\ shown = [buff |-> 0, steam |-> 0]
    /\ detailed_data = [kind |-> "unset", reason |-> ""]

\* neither market extractor is being followed
NavIdle ==
    /\ script = [first |-> "ok", second |-> "ok"]
    /\ bPc = "idle"
    /\ sPc = "idle"
    /\ bLog = <<>>
    /\ sLog = <<>>
    /\ bSeen = [selling_items |-> <<>>, trade_records |-> <<>>,
               gate |-> "unset", total_volume |-> 0,
               history |-> "unset"]
    /\ bResult = "unset"
    /\ sResult = "unset"
    /\ rowsRead = [buff |-> {}, steam |-> {},
                  pager |-> [links |-> <<>>, selling |-> TRUE,
                             failed |-> FALSE]]
    /\ sSeen = [selling_items |-> <<>>, currency |-> <<>>]

\* the scrape command is not being followed: the tasks of
\* scrape_items_with_async_storage are running
RunIdle ==
    /\ scrape_call = "scrape_items_with_async_storage"
    /\ has_format_item_display = FALSE
    /\ settings_fields = SettingsRead
    /\ concurrent = workers
    /\ async_storage = TRUE
    /\ save_to_db = TRUE
    /\ runPc = "tasks"
    /\ pageLog = <<>>
    /\ json_data = [written |-> FALSE, valid |-> <<>>, discarded |-> <<>>]
    /\ filterLog = <<>>
    /\ filterFails = {}

\* no function of rules.py is being followed
FeeIdle ==
    /\ feeIn = [buy_price |-> 0, sell_price |-> 0, price_cny |-> 0]
    /\ feeOut = [profit |-> 0, roi |-> 0, price_eur |-> 0, avg_eur |-> 0]
    /\ feeDone = {}

Tables == [1 .. MaxRows -> RowKinds]

\* the candidates and the detailed extractor of the runs followed: those of
\* the repository, then dicts for the candidates, then also an extractor
\* with the parameters the consumer passes
PipelineWirings ==
    {[item_type |-> "Skin", extractor_params |-> "page_skin"],
     [item_type |-> "dict", extractor_params |-> "page_skin"],
     [item_type |-> "dict", extractor_params |-> "page_item_pages"]}

\* the pipeline variables that are arguments of the run
PipelineInputs ==
    /\ \E wiring \in PipelineWirings :
          /\ item_type = wiring.item_type
          /\ extractor_params = wiring.extractor_params
    /\ exclusion_filters \in FilterOptions

\* the pipeline is not being followed
PipelineIdle ==
    /\ item_type = "Skin"
    /\ extractor_params = "page_skin"
    /\ exclusion_filters = {}

Init ==
    /\ workers \in 1 .. MaxWorkers
    /\ table \in Tables
    /\ limit \in {NoneVal, MaxRows - 1}
    /\ PipelineInputs
    /\ rowDone = {}
    /\ parseLog = <<>>
    /\ items = <<>>
    /\ prodPc = "extract"
    /\ prodIdx = 0
    /\ prodSent = 0
    /\ item_queue = <<>>
    /\ wPc = [w \in Workers |-> "get"]
    /\ wItem = [w \in Workers |-> NoneVal]
    /\ results = <<>>
    /\ discarded_items = <<>>
    /\ storage_queue = <<>>
    /\ stPc = "get"
    /\ stItem = NoneVal
    /\ saved_count = 0
    /\ batch = <<>>
    /\ backend = <<>>
    /\ mainPc = "await_producer"
    /\ deqLog = <<>>
    /\ inProgress = [w \in Workers |-> {}]
    /\ outcome = [r \in 1 .. MaxRows |-> "pending"]
    /\ fed = 0
    /\ ItemIdle
    /\ NavIdle
    /\ RunIdle
    /\ FeeIdle

ProducerNext ==
    \/ \E r \in Rows : ParseRow(r)
    \/ ExtractItemsReturn
    \/ ExtractItemsRaise
    \/ ProducerPut
    \/ ProducerPutSentinel
    \/ ProducerFinish

\* the steps of one scraper worker task
WorkerNext(w) ==
    /\ w \in Workers
    /\ \/ WorkerGet(w)
       \/ WorkerProcess(w)
       \/ WorkerSleepDone(w)

StorageNext == StorageGet \/ StorageSaved

MainNext ==
    \/ MainAwaitProducer
    \/ MainGatherRaises
    \/ MainSignalStorage
    \/ MainAwaitStorage

Next ==
    \/ \E r \in Rows : ParseRow(r)
    \/ ExtractItemsReturn
    \/ ExtractItemsRaise
    \/ ProducerPut
    \/ ProducerPutSentinel
    \/ ProducerFinish
    \/ \E w \in Workers : WorkerGet(w)
    \/ \E w \in Workers : WorkerProcess(w)
    \/ \E w \in Workers : WorkerSleepDone(w)
    \/ StorageGet
    \/ StorageSaved
    \/ MainAwaitProducer
    \/ MainGatherRaises
    \/ MainSignalStorage
    \/ MainAwaitStorage

Spec == Init /\ [][Next]_vars

\* The event loop runs every task that is ready, and every await of the
\* pipeline other than a queue get ends (navigations carry timeouts, sleeps
\* are finite).  The table read may fail, so extract_items is only assumed
\* to end, with a result or with an error.
Fairness ==
    /\ WF_vars(ProducerNext)
    /\ \A w \in 0 .. (MaxWorkers - 1) : WF_vars(WorkerNext(w))
    /\ WF_vars(StorageNext)
    /\ WF_vars(MainNext)

FairSpec == Init /\ [][Next]_vars /\ Fairness

(***************************************************************************)
(* StorageWorker (workers.py), fed through storage_queue                   *)
(***************************************************************************)

\* A flush that is skipped at end-of-stream.
FlushNever(b) == FALSE

\* if batch: (at the sentinel)
FlushNeeded(b) == b # <<>>

\* A threshold that is off by one.
BatchFullLate(b) == Len(b) > STORAGE_BATCH_SIZE

\* if len(batch) >= STORAGE_BATCH_SIZE:
BatchFull(b) == Len(b) >= STORAGE_BATCH_SIZE

\* A _save_batch without its try/except.
SaveBatchReraises(ok) == ~ok

\* _save_batch catches every exception of save_items and logs it.
SaveBatchRaises(ok) == FALSE

\* item = await storage_queue.get(), up to the next await.
SWGet ==
    /\ stPc = "get"
    /\ storage_queue # <<>>
    /\ storage_queue' = Tail(storage_queue)
    /\ IF Head(storage_queue) = NoneVal
       THEN /\ stPc' = IF FlushNeeded(batch) THEN "flush" ELSE "done"
            /\ batch' = batch
       ELSE /\ batch' = Append(batch, Head(storage_queue))
            /\ stPc' = IF BatchFull(batch') THEN "save" ELSE "get"
    /\ UNCHANGED <<tableVars, runVars, feeVars, navVars, itemVars, prodVars, item_queue, workerVars, stItem,
                   saved_count, backend, mainPc, fed>>

\* await self._save_batch(batch, ...) of a full batch returns; an exception
\* that escaped it would be caught by run, which logs it and goes on with
\* the batch as it is.
SWSaveDone ==
    /\ stPc = "save"
    /\ \E ok \in BOOLEAN :
          /\ backend' = Append(backend, [items |-> batch, ok |-> ok])
          /\ IF SaveBatchRaises(ok)
             THEN UNCHANGED <<saved_count, batch>>
             ELSE /\ saved_count' = saved_count + Len(batch)
                  /\ batch' = <<>>
    /\ stPc' = "get"
    /\ UNCHANGED <<tableVars, runVars, feeVars, navVars, itemVars, prodVars, item_queue, workerVars,
                   storage_queue, stItem, mainPc, fed>>

\* The flush at the sentinel returns; it is outside run's try, so an
\* exception that escaped _save_batch would end the worker.
SWFlushDone ==
    /\ stPc = "flush"
    /\ \E ok \in BOOLEAN :
          /\ backend' = Append(backend, [items |-> batch, ok |-> ok])
          /\ IF SaveBatchRaises(ok)
             THEN /\ stPc' = "crashed"
                  /\ UNCHANGED <<saved_count, batch>>
             ELSE /\ saved_count' = saved_count + Len(batch)
                  /\ batch' = <<>>
                  /\ stPc' = "done"
    /\ UNCHANGED <<tableVars, runVars, feeVars, navVars, itemVars, prodVars, item_queue, workerVars,
                   storage_queue, stItem, mainPc, fed>>

\* A scraper worker puts an accepted item: await storage_queue.put(item).
FeedPut ==
    /\ mainPc = "gather"
    /\ ~ConsumersFinished
    /\ fed < MaxFeed
    /\ storage_queue' = Append(storage_queue, fed + 1)
    /\ fed' = fed + 1
    /\ UNCHANGED <<tableVars, runVars, feeVars, navVars, itemVars, prodVars, item_queue, workerVars, storeVars,
                   mainPc>>

\* The scraper workers have exited: gather returns and the run puts the
\* sentinel.
FeedEnd ==
    /\ mainPc = "gather"
    /\ ~ConsumersFinished
    /\ wPc' = [w \in Workers |-> "done"]
    /\ UNCHANGED <<tableVars, runVars, feeVars, navVars, itemVars, prodVars, item_queue, wItem, results,
                   discarded_items, deqLog, inProgress, outcome,
                   storage_queue, storeVars, mainPc, fed>>

\* A run whose scraper workers are feeding storage_queue; StorageWorker
\* reads none of the producer's and the workers' variables.
InitStorage ==
    /\ workers = 1
    /\ table = [r \in 1 .. MaxRows |-> "skin"]
    /\ limit = NoneVal
    /\ PipelineIdle
    /\ rowDone = {}
    /\ parseLog = <<>>
    /\ items = <<>>
    /\ prodPc = "done"
    /\ prodIdx = 0
    /\ prodSent = 0
    /\ item_queue = <<>>
    /\ wPc = [w \in Workers |-> "extract"]
    /\ wItem = [w \in Workers |-> NoneVal]
    /\ results = <<>>
    /\ discarded_items = <<>>
    /\ storage_queue = <<>>
    /\ stPc = "get"
    /\ stItem = NoneVal
    /\ saved_count = 0
    /\ batch = <<>>
    /\ backend = <<>>
    /\ mainPc = "gather"
    /\ deqLog = <<>>
    /\ inProgress = [w \in Workers |-> {}]
    /\ outcome = [r \in 1 .. MaxRows |-> "pending"]
    /\ fed = 0
    /\ ItemIdle
    /\ NavIdle
    /\ RunIdle
    /\ FeeIdle

NextStorage ==
    \/ FeedPut
    \/ FeedEnd
    \/ MainSignalStorage
    \/ SWGet
    \/ SWSaveDone
    \/ SWFlushDone
    \/ MainAwaitStorage

SpecStorage == InitStorage /\ [][NextStorage]_vars

(***************************************************************************)
(* The pipeline on index tables of every kind of row, with one worker      *)
(***************************************************************************)

IndexTables == [1 .. MaxRows -> IndexKinds]

InitIndex ==
    /\ workers = 1
    /\ table \in IndexTables
    /\ limit = NoneVal
    /\ PipelineInputs
    /\ rowDone = {}
    /\ parseLog = <<>>
    /\ items = <<>>
    /\ prodPc = "extract"
    /\ prodIdx = 0
    /\ prodSent = 0
    /\ item_queue = <<>>
    /\ wPc = [w \in Workers |-> "get"]
    /\ wItem = [w \in Workers |-> NoneVal]
    /\ results = <<>>
    /\ discarded_items = <<>>
    /\ storage_queue = <<>>
    /\ stPc = "get"
    /\ stItem = NoneVal
    /\ saved_count = 0
    /\ batch = <<>>
    /\ backend = <<>>
    /\ mainPc = "await_producer"
    /\ deqLog = <<>>
    /\ inProgress = [w \in Workers |-> {}]
    /\ outcome = [r \in 1 .. MaxRows |-> "pending"]
    /\ fed = 0
    /\ ItemIdle
    /\ NavIdle
    /\ RunIdle
    /\ FeeIdle

SpecIndex == InitIndex /\ [][Next]_vars

(***************************************************************************)
(* Properties                                                              *)
(***************************************************************************)

\* the candidates waiting in a queue (its entries other than sentinels)
Candidates(q) == SeqFilter(q, Range(q) \ {NoneVal})

RECURSIVE Flatten(_)
Flatten(bs) ==
    IF bs = <<>> THEN <<>> ELSE Head(bs).items \o Flatten(Tail(bs))

\* every item handed to save_items so far, in submission order
Submitted == Flatten(backend)

SentinelAt == {i \in 1 .. Len(storage_queue) : storage_queue[i] = NoneVal}

\* C1: the end-of-stream sentinel is put on storage_queue only after the
\* producer and every scraper worker have finished, so the storage worker
\* never takes it while a scraper worker runs, nothing is queued behind it
\* and every accepted item is ahead of it.
C1_SentinelAfterWorkers ==
    /\ (SentinelAt # {} \/ stPc = "done") =>
          /\ prodPc = "done"
          /\ \A w \in Workers : wPc[w] = "done"
          /\ Range(results) \subseteq
                Range(Submitted) \cup {stItem} \cup Range(storage_queue)
    /\ SentinelAt \subseteq {Len(storage_queue)}

C1_Witness ==
    /\ workers = 2
    /\ stPc = "done"
    /\ Len(results) >= 2

\* the run has shut down: every task has exited and both queues are empty
ShutDown ==
    /\ \A w \in Workers : wPc[w] = "done"
    /\ stPc = "done"
    /\ mainPc = "done"
    /\ item_queue = <<>>
    /\ storage_queue = <<>>
    /\ Submitted = results

\* C2: once the producer has enqueued all candidates and the N sentinels,
\* every scraper worker eventually takes one sentinel and exits, the storage
\* worker eventually takes the end-of-stream sentinel having handed every
\* accepted item to the backend, and no task stays blocked on a queue.
C2_CleanShutdown == (prodPc = "done") ~> ShutDown

\* every scraper worker task has ended, by a sentinel or by an exception
AllWorkersExited == \A w \in Workers : wPc[w] \in {"done", "failed"}

\* C3: after all scraper workers exit, results and discarded_items
\* together hold exactly the candidates the producer enqueued.
C3_AllRecorded ==
    AllWorkersExited =>
        \A r \in 1 .. MaxRows :
            Count(r, results \o discarded_items) = Count(r, enqLog)

\* C4: when the storage worker exits, every item that was put on the queue
\* ahead of the sentinel has been handed to the backend in exactly one
\* batch, the batch sizes add up to the number of items, and the local
\* batch is empty.
C4_AllSubmittedOnce ==
    stPc = "done" =>
        /\ batch = <<>>
        /\ Submitted = UpTo(fed)

C4_Witness ==
    /\ stPc = "done"
    /\ fed = 23
    /\ Len(backend) = 3
    /\ Len(backend[1].items) = 10
    /\ Len(backend[2].items) = 10
    /\ Len(backend[3].items) = 3

\* C5: the local batch never holds more than STORAGE_BATCH_SIZE items, a
\* save is pending exactly when it holds that many, every batch handed to
\* the backend has exactly that many items except possibly the last one,
\* handed over at end-of-stream with at least one item.
C5_BatchBound ==
    /\ Len(batch) <= STORAGE_BATCH_SIZE
    /\ (stPc = "save") = (Len(batch) = STORAGE_BATCH_SIZE)
    /\ \A i \in 1 .. Len(backend) :
          \/ Len(backend[i].items) = STORAGE_BATCH_SIZE
          \/ /\ i = Len(backend)
             /\ stPc = "done"
             /\ Len(backend[i].items) \in 1 .. (STORAGE_BATCH_SIZE - 1)

C5_Witness ==
    /\ stPc = "done"
    /\ Len(backend) = 2
    /\ Len(backend[1].items) = STORAGE_BATCH_SIZE
    /\ Len(backend[2].items) = 1

\* C6: a batch the backend rejects is dropped and never handed over again,
\* the worker goes on batching the items that follow, and it still exits
\* at end-of-stream having handed over every item.
C6_RejectedBatchDropped ==
    /\ stPc # "crashed"
    /\ \A i, j \in 1 .. Len(backend) :
          i # j => Range(backend[i].items) \cap Range(backend[j].items) = {}
    /\ Range(batch) \cap Range(Submitted) = {}
    /\ stPc = "done" => Range(Submitted) = 1 .. fed

C6_Witness ==
    /\ stPc = "done"
    /\ Len(backend) = 3
    /\ ~backend[1].ok
    /\ backend[2].ok
    /\ ~backend[3].ok

\* C8: a worker has at most one candidate in progress, none when it reads
\* the queue, and every candidate it is done with has its outcome recorded.
C8_OneAtATime ==
    /\ \A w \in Workers :
          /\ Cardinality(inProgress[w]) <= 1
          /\ wPc[w] \in {"get", "done", "failed"} => inProgress[w] = {}
    /\ \A r \in Range(deqLog) :
          (\A w \in Workers : r \notin inProgress[w]) =>
              outcome[r] # "pending"

C8_Witness ==
    /\ workers = 1
    /\ Len(deqLog) = 2
    /\ wPc[0] = "extract"
    /\ outcome[deqLog[1]] = "data"

\* C9: the candidates waiting in item_queue never exceed 2 x N, the
\* capacity at which a put of the producer waits.
C9_QueueBounded == Len(Candidates(item_queue)) <= 2 * workers

\* the candidates taken so far followed by those still waiting
Seen == deqLog \o Candidates(item_queue)

\* C10: candidates are put on item_queue, and taken from it across all
\* workers, in table order.
C10_TableOrder ==
    /\ Seen = enqLog
    /\ \A i, j \in 1 .. Len(Seen) : i < j => Seen[i] < Seen[j]

C10_Witness ==
    /\ workers = 2
    /\ table[2] = "sticker"
    /\ deqLog = <<1, 3>>
    /\ wPc[0] # "get"
    /\ wPc[1] # "get"

(***************************************************************************)
(* DetailedItemExtractor.extract_detailed_item, called by a scraper worker *)
(***************************************************************************)

\* how a page.goto ends: it returns, raises PlaywrightTimeout, or raises
\* another error (net::ERR_ABORTED and the like)
NavOutcomes == {"ok", "timeout", "aborted"}

\* price text that is empty once cleaned: the row has no price
EmptyPrice == 0

\* prices (in hundredths) of the rows a BUFF selling tab can show
BuffListings == {<<>>, <<EmptyPrice>>, <<1000>>, <<1000, 1000>>, <<800, 1200>>}

\* prices (in hundredths) of the rows a BUFF history tab can show
BuffTrades == {<<>>, <<900>>, <<901>>, <<900, 900>>, <<700, 1100>>, <<899>>}

\* prices (in hundredths) of the rows a Steam listing page can show
SteamListings == {<<>>, <<1250>>, <<1250, 1300>>}

\* total volumes a market page can show
Volumes == {19, 20, 39, 40}

RECURSIVE SeqSum(_)
SeqSum(s) == IF s = <<>> THEN 0 ELSE Head(s) + SeqSum(Tail(s))

\* [float(i["price_cny"]) for i in rows if i.get("price_cny")]
ValidPrices(rows) == SeqFilter(rows, Range(rows) \ {EmptyPrice})

(***************************************************************************)
(* Python floats (IEEE 754 binary64, round to nearest, ties to even) on    *)
(* naturals held as sequences of limbs, least significant first.  A float  *)
(* above 0 is m * 2^e with m of 53 bits; 0.0 has no limbs.                 *)
(***************************************************************************)

\* a product of two limbs and a carry fits in the integers of the checker
LimbBits == 16 - 1

LimbBase == 2 ^ LimbBits

RECURSIVE Trim(_)
Trim(a) ==
    IF a = <<>> THEN <<>>
    ELSE IF a[Len(a)] = 0 THEN Trim(SubSeq(a, 1, Len(a) - 1))
    ELSE a

RECURSIVE NatOf(_)
NatOf(n) ==
    IF n = 0 THEN <<>> ELSE <<n % LimbBase>> \o NatOf(n \div LimbBase)

RECURSIVE AddNat(_, _, _)
AddNat(a, b, carry) ==
    IF a = <<>> /\ b = <<>> THEN NatOf(carry)
    ELSE LET x == IF a = <<>> THEN 0 ELSE Head(a)
             y == IF b = <<>> THEN 0 ELSE Head(b)
             sum == x + y + carry
         IN  <<sum % LimbBase>>
                 \o AddNat(IF a = <<>> THEN a ELSE Tail(a),
                           IF b = <<>> THEN b ELSE Tail(b),
                           sum \div LimbBase)

RECURSIVE MulSmall(_, _, _)
MulSmall(a, k, carry) ==
    IF a = <<>> THEN NatOf(carry)
    ELSE LET p == Head(a) * k + carry
         IN  <<p % LimbBase>> \o MulSmall(Tail(a), k, p \div LimbBase)

RECURSIVE MulNat(_, _)
MulNat(a, b) ==
    IF b = <<>> THEN <<>>
    ELSE AddNat(MulSmall(a, Head(b), 0), <<0>> \o MulNat(a, Tail(b)), 0)

\* quotient and remainder of a by q, q below LimbBase
RECURSIVE DivSmall(_, _)
DivSmall(a, q) ==
    IF a = <<>> THEN [quot |-> <<>>, rem |-> 0]
    ELSE LET hi == DivSmall(Tail(a), q)
             cur == hi.rem * LimbBase + Head(a)
         IN  [quot |-> <<cur \div q>> \o hi.quot, rem |-> cur % q]

Zeros(n) == [i \in 1 .. n |-> 0]

ShiftLeft(a, k) ==
    Zeros(k \div LimbBits) \o MulSmall(a, 2 ^ (k % LimbBits), 0)

\* a shifted right by k bits, and whether a bit that was 1 is lost
ShiftRight(a, k) ==
    LET d == k \div LimbBits
        low == SubSeq(a, 1, d)
        high == SubSeq(a, d + 1, Len(a))
        qr == DivSmall(high, 2 ^ (k % LimbBits))
    IN  [quot |-> Trim(qr.quot),
         sticky |-> qr.rem # 0 \/ \E i \in 1 .. Len(low) : low[i] # 0]

BitsOf(n) ==
    CHOOSE i \in 0 .. LimbBits : 2 ^ i > n /\ (i = 0 \/ 2 ^ (i - 1) <= n)

BitLen(a) ==
    LET t == Trim(a)
    IN  IF t = <<>> THEN 0
        ELSE (Len(t) - 1) * LimbBits + BitsOf(t[Len(t)])

RECURSIVE CmpNat(_, _)
CmpNat(a, b) ==
    IF Len(a) # Len(b) THEN (IF Len(a) < Len(b) THEN -1 ELSE 1)
    ELSE IF a = <<>> THEN 0
    ELSE IF a[Len(a)] # b[Len(b)]
    THEN (IF a[Len(a)] < b[Len(b)] THEN -1 ELSE 1)
    ELSE CmpNat(SubSeq(a, 1, Len(a) - 1), SubSeq(b, 1, Len(b) - 1))

FloatZero == [m |-> <<>>, e |-> 0]

\* the float nearest to v * 2^e, v being exact but for a remainder below
\* its last bit when sticky; a tie goes to the even mantissa
RoundNat(v, sticky, e) ==
    LET t == Trim(v)
        n == BitLen(t)
    IN  IF n = 0 THEN FloatZero
        ELSE IF n <= 53
        THEN [m |-> Trim(ShiftLeft(t, 53 - n)), e |-> e - (53 - n)]
        ELSE LET r == ShiftRight(t, n - 54)
                 half == r.quot[1] % 2 = 1
                 q == Trim(DivSmall(r.quot, 2).quot)
                 odd == q[1] % 2 = 1
                 up == half /\ (r.sticky \/ sticky \/ odd)
                 m == IF up THEN Trim(AddNat(q, <<1>>, 0)) ELSE q
             IN  IF BitLen(m) = 54
                 THEN [m |-> Trim(DivSmall(m, 2).quot), e |-> e + (n - 53) + 1]
                 ELSE [m |-> m, e |-> e + (n - 53)]

\* bits a quotient is carried to before it is rounded
GuardBits == 5 * LimbBits

\* float("p.qq"): the float nearest to hundredths / 100
FloatOfHundredths(hundredths) ==
    LET d == DivSmall(ShiftLeft(NatOf(hundredths), GuardBits), 100)
    IN  RoundNat(d.quot, d.rem # 0, -GuardBits)

\* x / n, n an int below LimbBase
FloatDivInt(x, n) ==
    LET d == DivSmall(ShiftLeft(x.m, GuardBits), n)
    IN  RoundNat(d.quot, d.rem # 0, x.e - GuardBits)

\* x + y
FloatAdd(x, y) ==
    IF x.m = <<>> THEN y
    ELSE IF y.m = <<>> THEN x
    ELSE LET lo == IF x.e < y.e THEN x.e ELSE y.e
         IN  RoundNat(AddNat(ShiftLeft(x.m, x.e - lo),
                             ShiftLeft(y.m, y.e - lo), 0), FALSE, lo)

\* x * y
FloatMul(x, y) == RoundNat(MulNat(x.m, y.m), FALSE, x.e + y.e)

\* x < y
FloatLess(x, y) ==
    IF y.m = <<>> THEN FALSE
    ELSE IF x.m = <<>> THEN TRUE
    ELSE IF x.e # y.e THEN x.e < y.e
    ELSE CmpNat(x.m, y.m) < 0

\* sum(prices), added left to right from 0
RECURSIVE FloatSum(_, _)
FloatSum(acc, prices) ==
    IF prices = <<>> THEN acc
    ELSE FloatSum(FloatAdd(acc, FloatOfHundredths(Head(prices))), Tail(prices))

\* sum(prices) / len(prices)
Average(prices) == FloatDivInt(FloatSum(FloatZero, prices), Len(prices))

\* the literal 0.90
Threshold == FloatOfHundredths(90)

\* avg_trade_price <= avg_selling_price * 0.90
Falling(selling_prices, trade_prices) ==
    ~FloatLess(FloatMul(Average(selling_prices), Threshold),
               Average(trade_prices))

\* recent_avg < current_avg * threshold
Dropped(selling_prices, trade_prices) ==
    FloatLess(Average(trade_prices),
              FloatMul(Average(selling_prices), Threshold))

\* _validate_price_difference: True (discard) when both lists have prices
\* and avg_trade_price <= avg_selling_price * 0.90
ShouldDiscard(selling_items, trade_records) ==
    LET sp == ValidPrices(selling_items)
        tp == ValidPrices(trade_records)
    IN  /\ sp # <<>>
        /\ tp # <<>>
        /\ Falling(sp, tp)

\* _extract_buff_data: None when the selling tab does not load or shows
\* no row, or when the prices are falling; the trades are left out when the
\* history tab times out.
BuffData(nav1, listings, nav2, trades) ==
    IF nav1 # "ok" \/ listings = <<>> \/ nav2 = "aborted" THEN NilSnapshot
    ELSE IF nav2 = "timeout"
    THEN [ok |-> TRUE, selling_items |-> listings, trade_records |-> <<>>]
    ELSE IF ShouldDiscard(listings, trades) THEN NilSnapshot
    ELSE [ok |-> TRUE, selling_items |-> listings, trade_records |-> trades]

\* _extract_steam_data: None when the page does not load or shows no row
SteamData(nav, listings) ==
    IF nav # "ok" \/ listings = <<>> THEN NilSnapshot
    ELSE [ok |-> TRUE, selling_items |-> listings, trade_records |-> <<>>]

\* _calculate_profitability returns a dict (not None)
AnalysisValid(b, s) ==
    /\ ValidPrices(b.selling_items) # <<>>
    /\ ValidPrices(s.selling_items) # <<>>

\* the fields PriceData declares without a default, and the keywords
\* extract_detailed_item builds it with
PriceDataRequired == {"lowest_price"}

PriceDataPassed ==
    {"avg_price_cny", "avg_price_eur", "selling_items_count",
     "trade_records_count"}

\* pydantic raises ValidationError when a required field is not passed
Validates(required, passed) == required \subseteq passed

\* the objects the function is called with as `skin`: a dict, the Skin of
\* domain/models.py (name, wear, float_value, stattrak), and an object that
\* also has item_url, buff_url and steam_url, either of which may be empty
SkinArguments ==
    {[type |-> "dict", buff_url |-> FALSE, steam_url |-> FALSE],
     [type |-> "Skin", buff_url |-> FALSE, steam_url |-> FALSE]}
    \cup [type : {"SkinWithUrls"}, buff_url : BOOLEAN, steam_url : BOOLEAN]

\* skin.name, then skin.item_url, skin.buff_url and skin.steam_url, read by
\* the two log lines ahead of the try block
HasName(s) == s.type # "dict"

HasUrls(s) == s.type = "SkinWithUrls"

\* extract_detailed_item ends with the value d
Return(d) ==
    /\ detailed_data' = d
    /\ dPc' = "returned"

\* extract_detailed_item ends with an exception
Raise(error) ==
    /\ detailed_data' = Raised(error)
    /\ dPc' = "raised"

\* a navigation on `page`, the only page the function has: a worker passes
\* the primary page of the run
Navigation(site) == [site |-> site, page |-> PrimaryPage]

\* The call: the arguments are bound, the two log lines read the attributes
\* of skin, and inside the try the first navigation starts, on the item URL
\* when a market URL is missing.
DCall ==
    /\ dPc = "call"
    /\ IF ~CallBinds(extractor_call, extractor_params)
       THEN Raise("TypeError") /\ UNCHANGED navLog
       ELSE IF ~HasName(skin) \/ ~HasUrls(skin)
       THEN Raise("AttributeError") /\ UNCHANGED navLog
       ELSE /\ dPc' = IF skin.buff_url /\ skin.steam_url
                      THEN "buff" ELSE "index"
            /\ navLog' = <<Navigation(dPc')>>
            /\ UNCHANGED detailed_data
    /\ UNCHANGED <<pipelineVars, runVars, feeVars, navVars, skin, buff_data,
                   steam_data, shown>>

\* the goto of the item URL ends and the missing market URLs are read
DIndexDone ==
    /\ dPc = "index"
    /\ \E nav \in NavOutcomes, buff_found, steam_found \in BOOLEAN :
          IF /\ nav = "ok"
             /\ skin.buff_url \/ buff_found
             /\ skin.steam_url \/ steam_found
          THEN /\ dPc' = "buff"
               /\ navLog' = Append(navLog, Navigation("buff"))
               /\ UNCHANGED detailed_data
          ELSE /\ Return(ReturnNone)
               /\ UNCHANGED navLog
    /\ UNCHANGED <<pipelineVars, runVars, feeVars, navVars, skin, buff_data,
                   steam_data, shown>>

\* _extract_buff_data returns; without BUFF data the item is given up
DBuffDone ==
    /\ dPc = "buff"
    /\ \E nav1, nav2 \in NavOutcomes, listings \in BuffListings,
          trades \in BuffTrades :
          /\ buff_data' = BuffData(nav1, listings, nav2, trades)
          /\ IF buff_data'.ok
             THEN /\ dPc' = "steam"
                  /\ navLog' = Append(navLog, Navigation("steam"))
                  /\ UNCHANGED detailed_data
             ELSE /\ Return(ReturnNone)
                  /\ UNCHANGED navLog
    /\ UNCHANGED <<pipelineVars, runVars, feeVars, navVars, skin, steam_data,
                   shown>>

\* _extract_steam_data returns, the profitability is calculated and the
\* MarketData is built; the ValidationError of a model that is not given
\* its required fields is caught by `except Exception`, which returns None
DSteamDone ==
    /\ dPc = "steam"
    /\ \E nav \in NavOutcomes, listings \in SteamListings :
          /\ steam_data' = SteamData(nav, listings)
          /\ IF /\ steam_data'.ok
                /\ AnalysisValid(buff_data, steam_data')
                /\ Validates(PriceDataRequired, PriceDataPassed)
             THEN Return(ReturnMarketData)
             ELSE Return(ReturnNone)
    /\ UNCHANGED <<pipelineVars, runVars, feeVars, navVars, skin, navLog,
                   buff_data, shown>>

\* extract_detailed_item(page, skin) is about to be called, with the
\* arguments by position or with the keywords of the consumer.
InitItem ==
    /\ workers = 1
    /\ table = [r \in 1 .. MaxRows |-> "skin"]
    /\ limit = NoneVal
    /\ PipelineIdle
    /\ rowDone = {}
    /\ parseLog = <<>>
    /\ items = <<>>
    /\ prodPc = "unstarted"
    /\ prodIdx = 0
    /\ prodSent = 0
    /\ item_queue = <<>>
    /\ skin \in SkinArguments
    /\ extractor_call \in {"positional", "keywords"}
    /\ shown \in [buff : Volumes, steam : Volumes]
    /\ dPc = "call"
    /\ navLog = <<>>
    /\ wPc = [w \in Workers |-> "unstarted"]
    /\ wItem = [w \in Workers |-> NoneVal]
    /\ results = <<>>
    /\ discarded_items = <<>>
    /\ storage_queue = <<>>
    /\ stPc = "unstarted"
    /\ stItem = NoneVal
    /\ saved_count = 0
    /\ batch = <<>>
    /\ backend = <<>>
    /\ mainPc = "unstarted"
    /\ deqLog = <<>>
    /\ inProgress = [w \in Workers |-> {}]
    /\ outcome = [r \in 1 .. MaxRows |-> "pending"]
    /\ fed = 0
    /\ buff_data = NilSnapshot
    /\ steam_data = NilSnapshot
    /\ detailed_data = [kind |-> "unset", reason |-> ""]
    /\ NavIdle
    /\ RunIdle
    /\ FeeIdle

NextItem ==
    \/ DCall
    \/ DIndexDone
    \/ DBuffDone
    \/ DSteamDone

SpecItem == InitItem /\ [][NextItem]_vars

(***************************************************************************)
(* BuffExtractor.extract_buff_data and SteamExtractor.extract_steam_data,  *)
(* each on a page whose gotos of the market URL end as `script` says       *)
(***************************************************************************)

\* how a page.goto ends: as NavOutcomes, or with an error that is not a
\* network error
GotoOutcomes == NavOutcomes \cup {"error"}

\* await page.wait_for_timeout(ms), ms drawn from lo .. hi
Sleep(lo, hi) ==
    [op |-> "sleep", url |-> "", wait |-> "", lo |-> lo, hi |-> hi]

\* await page.goto(url, wait_until=wait, timeout=timeout)
Goto(url, wait, timeout) ==
    [op |-> "goto", url |-> url, wait |-> wait, lo |-> timeout,
     hi |-> timeout]

\* the gotos of url among the operations of a log
GotosOf(log, url) ==
    {i \in 1 .. Len(log) : log[i].op = "goto" /\ log[i].url = url}

\* except PlaywrightTimeout: return None; except Exception: retry when the
\* message names a network error ("ERR_ABORTED", "net::", "ERR_")
Retried(out) == out = "aborted"

\* A retry that is itself retried when it fails.
AfterRetryAgain(out) == IF out = "ok" THEN "listings" ELSE "retry_wait"

\* the retry goto returns, or `except Exception as retry_error: return None`
AfterRetry(out) == IF out = "ok" THEN "listings" ELSE "nil"

\* BuffExtractor.validate_price_difference: True when a list is empty, False
\* when recent_avg < current_avg * 0.90
BuffPricesStable(selling_items, trade_records) ==
    \/ selling_items = <<>>
    \/ trade_records = <<>>
    \/ ~Dropped(selling_items, trade_records)

\* the rows a selling tab of BUFF and a listing page of Steam can show,
\* some of them without a positive price
SellingRows == BuffListings \cup {<<EmptyPrice, 1000>>, <<1000, EmptyPrice>>}

SteamRows == SteamListings \cup {<<EmptyPrice>>, <<EmptyPrice, 1250>>}

\* A row loop that gives up at the first row without a positive price.
PricedRowsAllOrNone(rows) == IF EmptyPrice \in Range(rows) THEN <<>> ELSE rows

\* the row loop of extract_selling_items: a row is kept when its price text
\* is a number above 0, and skipped otherwise
PricedRows(rows) == SeqFilter(rows, {p \in Range(rows) : p > 0})

\* extract_buff_data ends with the value r
BuffReturn(r) ==
    /\ bResult' = r
    /\ bPc' = "done"

\* the random delay of 2-5 s before the navigation
BInitialDelay ==
    /\ bPc = "delay"
    /\ bLog' = Append(bLog, Sleep(2000, 5000))
    /\ bPc' = "goto"
    /\ UNCHANGED <<pipelineVars, runVars, feeVars, itemVars, script, sSeen, rowsRead, sPc, sLog, bSeen, bResult,
                   sResult>>

\* the first goto of the selling tab, and the 5 s wait when it returns
BGoto ==
    /\ bPc = "goto"
    /\ IF script.first = "ok"
       THEN /\ bLog' = bLog \o <<Goto("selling", "domcontentloaded", 15000),
                                  Sleep(5000, 5000)>>
            /\ bPc' = "listings"
            /\ UNCHANGED bResult
       ELSE /\ bLog' = Append(bLog, Goto("selling", "domcontentloaded", 15000))
            /\ IF Retried(script.first)
               THEN bPc' = "retry_wait" /\ UNCHANGED bResult
               ELSE BuffReturn("nil")
    /\ UNCHANGED <<pipelineVars, runVars, feeVars, itemVars, script, sSeen, rowsRead, sPc, sLog, bSeen, sResult>>

\* the wait of 8-15 s before the retry
BRetryWait ==
    /\ bPc = "retry_wait"
    /\ bLog' = Append(bLog, Sleep(8000, 15000))
    /\ bPc' = "blank"
    /\ UNCHANGED <<pipelineVars, runVars, feeVars, itemVars, script, sSeen, rowsRead, sPc, sLog, bSeen, bResult,
                   sResult>>

\* goto about:blank, whose failure is ignored, and the wait of 2 s
BBlank ==
    /\ bPc = "blank"
    /\ \E out \in GotoOutcomes :
          bLog' = bLog \o <<Goto("about:blank", "domcontentloaded", 5000),
                            Sleep(2000, 2000)>>
    /\ bPc' = "retry"
    /\ UNCHANGED <<pipelineVars, runVars, feeVars, itemVars, script, sSeen, rowsRead, sPc, sLog, bSeen, bResult,
                   sResult>>

\* the second goto of the selling tab, and the 5 s wait when it returns
BRetry ==
    /\ bPc = "retry"
    /\ bLog' = IF script.second = "ok"
               THEN bLog \o <<Goto("selling", "load", 30000), Sleep(5000, 5000)>>
               ELSE Append(bLog, Goto("selling", "load", 30000))
    /\ IF AfterRetry(script.second) = "nil"
       THEN BuffReturn("nil")
       ELSE bPc' = AfterRetry(script.second) /\ UNCHANGED bResult
    /\ UNCHANGED <<pipelineVars, runVars, feeVars, itemVars, script, sSeen, rowsRead, sPc, sLog, bSeen, sResult>>

\* the href of a pager link: absent, without "#page_num=", with a number
\* after it, or with text that int() rejects
PageLink(kind, n) == [kind |-> kind, n |-> n]

\* the links `div.pager a.page-link` of a selling tab can hold
PageLinks ==
    {<<>>,
     <<PageLink("no_marker", 0)>>,
     <<PageLink("not_number", 0)>>,
     <<PageLink("number", 3), PageLink("number", 2), PageLink("no_href", 0)>>,
     <<PageLink("not_number", 0), PageLink("number", 2)>>}

\* what the selling tab shows besides the prices of its rows: the pager
\* links, whether the rows carry the class `selling`, and whether reading
\* the pager raises
PagerStates == [links : PageLinks, selling : BOOLEAN, failed : BOOLEAN]

\* the loop over page_links: max_page starts at 1 and is raised by every
\* href that holds "#page_num=" followed by an integer
RECURSIVE MaxPage(_, _)
MaxPage(max_page, page_links) ==
    IF page_links = <<>> THEN max_page
    ELSE LET link == Head(page_links)
         IN  MaxPage(IF link.kind = "number" /\ link.n > max_page
                     THEN link.n ELSE max_page,
                     Tail(page_links))

\* Rows per page taken as counted, with no default.
ItemsPerPageCounted(current_rows) == current_rows

\* items_per_page = len(current_rows) if current_rows else 10
ItemsPerPage(current_rows) == IF current_rows > 0 THEN current_rows ELSE 10

\* len(await page.locator("tr.selling").all()) on a page showing `rows`
CurrentRows(rows, pager) == IF pager.selling THEN Len(rows) ELSE 0

\* total_volume of extract_selling_items: 0 when no table loads; from the
\* pager when it has links; else the count of tr.selling rows; and the
\* count of generic rows when that leaves 0
TotalVolume(rows, pager) ==
    LET current_rows == CurrentRows(rows, pager)
        from_pager ==
            IF pager.failed THEN current_rows
            ELSE IF Len(pager.links) > 0
            THEN MaxPage(1, pager.links) * ItemsPerPage(current_rows)
            ELSE current_rows
    IN  IF rows = <<>> THEN 0
        ELSE IF current_rows = 0 /\ from_pager = 0 THEN Len(rows)
        ELSE from_pager

\* wait_for_selector("tr.selling"), then ("table tbody tr"): a page
\* without rows times out on both and the function returns [], 0
TableLoaded(rows) == rows # <<>>

\* extract_selling_items: once a table has loaded, the 1 s wait for the
\* pager, the total volume, and the rows with a positive price; none ends
\* the extraction
BListings ==
    /\ bPc = "listings"
    /\ \E rows \in SellingRows, pager \in PagerStates :
          /\ rowsRead' = [rowsRead EXCEPT !.buff = {rows}, !.pager = pager]
          /\ bSeen' = [bSeen EXCEPT !.selling_items = PricedRows(rows),
                                    !.total_volume = TotalVolume(rows, pager)]
          /\ bLog' = IF TableLoaded(rows)
                     THEN Append(bLog, Sleep(1000, 1000))
                     ELSE bLog
          /\ IF PricedRows(rows) = <<>>
             THEN BuffReturn("nil")
             ELSE bPc' = "history" /\ UNCHANGED bResult
    /\ UNCHANGED <<pipelineVars, runVars, feeVars, itemVars, script, sSeen, sPc, sLog, sResult>>

\* the rows extract_trade_records can find after the goto of the history
\* tab: those of the history tab, and after a goto that timed out also
\* the rows the page still shows from the selling tab
TradeRowsAfter(out) ==
    IF out = "timeout" THEN BuffTrades \cup rowsRead.buff ELSE BuffTrades

\* the goto of the history tab, extract_trade_records on what the page
\* shows, and the price validation
BHistory ==
    /\ bPc = "history"
    /\ \E out \in GotoOutcomes :
       \E rows \in TradeRowsAfter(out) :
          IF out \in {"ok", "timeout"}
          THEN /\ bLog' = IF out = "ok"
                          THEN bLog \o <<Goto("history", "domcontentloaded", 15000),
                                         Sleep(5000, 5000)>>
                          ELSE Append(bLog,
                                      Goto("history", "domcontentloaded", 15000))
               /\ IF BuffPricesStable(bSeen.selling_items, ValidPrices(rows))
                  THEN /\ bSeen' = [bSeen EXCEPT
                                      !.trade_records = ValidPrices(rows),
                                      !.gate = "pass",
                                      !.history = out]
                       /\ BuffReturn("snapshot")
                  ELSE /\ bSeen' = [bSeen EXCEPT
                                      !.trade_records = ValidPrices(rows),
                                      !.gate = "fail",
                                      !.history = out]
                       /\ BuffReturn("nil")
          ELSE /\ bLog' = Append(bLog,
                                 Goto("history", "domcontentloaded", 15000))
               /\ bSeen' = [bSeen EXCEPT !.history = out]
               /\ BuffReturn("nil")
    /\ UNCHANGED <<pipelineVars, runVars, feeVars, itemVars, script, sSeen, rowsRead, sPc, sLog, sResult>>

\* CNY_TO_EUR = 8.1 of rules.py, in tenths
CNY_TO_EUR == 81

\* price_cny / CNY_TO_EUR, in thousandths, rounded down
convert_cny_to_eur(price_cny) == (price_cny * 1000 * 10) \div CNY_TO_EUR

\* the currency of a price text: CNY when it holds a yuan sign
Currencies == {"EUR", "CNY"}

\* the price a Steam listing is stored with, in hundredths rounded down: a
\* price shown in CNY is converted, any other is kept as it is
ListingPrice(price, currency) ==
    IF currency = "CNY" THEN convert_cny_to_eur(price) \div 1000 ELSE price

\* extract_steam_data ends with the value r
SteamReturn(r) ==
    /\ sResult' = r
    /\ sPc' = "done"

\* the goto of the listing page, and the 5 s wait when it returns; any
\* failure is caught by the handlers at the end of extract_steam_data
SGoto ==
    /\ sPc = "goto"
    /\ IF script.first = "ok"
       THEN /\ sLog' = sLog \o <<Goto("steam", "networkidle", 10000),
                                  Sleep(5000, 5000)>>
            /\ sPc' = "listings"
            /\ UNCHANGED sResult
       ELSE /\ sLog' = Append(sLog, Goto("steam", "networkidle", 10000))
            /\ SteamReturn("nil")
    /\ UNCHANGED <<pipelineVars, runVars, feeVars, itemVars, script, sSeen, rowsRead, bPc, bLog, bSeen, bResult>>

\* extract_selling_items: the rows with a positive price, each stored with
\* its price in EUR and the currency it was shown in; none ends the
\* extraction
SListings ==
    /\ sPc = "listings"
    /\ \E rows \in SteamRows :
          \E currency \in [1 .. Len(PricedRows(rows)) -> Currencies] :
              /\ rowsRead' = [rowsRead EXCEPT !.steam = {rows}]
              /\ sSeen' = [selling_items |->
                               [i \in 1 .. Len(PricedRows(rows)) |->
                                   ListingPrice(PricedRows(rows)[i],
                                                currency[i])],
                           currency |-> currency]
              /\ IF PricedRows(rows) = <<>>
                 THEN SteamReturn("nil")
                 ELSE SteamReturn("snapshot")
    /\ UNCHANGED <<pipelineVars, runVars, feeVars, itemVars, script, bPc,
                   bLog, sLog, bSeen, bResult>>

\* Each extractor is called on a page of its own; the pages answer the
\* gotos of their market URL in the same way.
InitNav ==
    /\ workers = 1
    /\ table = [r \in 1 .. MaxRows |-> "skin"]
    /\ limit = NoneVal
    /\ PipelineIdle
    /\ rowDone = {}
    /\ parseLog = <<>>
    /\ items = <<>>
    /\ prodPc = "unstarted"
    /\ prodIdx = 0
    /\ prodSent = 0
    /\ item_queue = <<>>
    /\ wPc = [w \in Workers |-> "unstarted"]
    /\ wItem = [w \in Workers |-> NoneVal]
    /\ results = <<>>
    /\ discarded_items = <<>>
    /\ storage_queue = <<>>
    /\ stPc = "get"
    /\ stItem = NoneVal
    /\ saved_count = 0
    /\ batch = <<>>
    /\ backend = <<>>
    /\ mainPc = "unstarted"
    /\ deqLog = <<>>
    /\ inProgress = [w \in Workers |-> {}]
    /\ outcome = [r \in 1 .. MaxRows |-> "pending"]
    /\ fed = 0
    /\ ItemIdle
    /\ script \in [first : GotoOutcomes, second : GotoOutcomes]
    /\ bPc = "delay"
    /\ sPc = "goto"
    /\ bLog = <<>>
    /\ sLog = <<>>
    /\ bSeen = [selling_items |-> <<>>, trade_records |-> <<>>,
               gate |-> "unset", total_volume |-> 0,
               history |-> "unset"]
    /\ bResult = "unset"
    /\ sResult = "unset"
    /\ rowsRead = [buff |-> {}, steam |-> {},
                  pager |-> [links |-> <<>>, selling |-> TRUE,
                             failed |-> FALSE]]
    /\ sSeen = [selling_items |-> <<>>, currency |-> <<>>]
    /\ RunIdle
    /\ FeeIdle

NextNav ==
    \/ BInitialDelay
    \/ BGoto
    \/ BRetryWait
    \/ BBlank
    \/ BRetry
    \/ BListings
    \/ BHistory
    \/ SGoto
    \/ SListings

SpecNav == InitNav /\ [][NextNav]_vars

(***************************************************************************)
(* The scrape command: option check, scrape_only, the page life cycle of   *)
(* scrape_items / scrape_items_with_async_storage, the terminal save and   *)
(* the JSON output                                                         *)
(***************************************************************************)

\* values of --concurrent (type=int) the command is run with
ConcurrentOptions == 0 .. 6

\* A command that only rejects a concurrency below 1.
ConcurrentAtLeastOne(c) == c >= 1

\* not (concurrent < 1 or concurrent > 5)
ConcurrentInRange(c) == ~(c < 1 \/ c > 5)

\* page events of the run
NewPage(p) == [op |-> "new", page |-> p]

ClosePage(p) == [op |-> "close", page |-> p]

\* BrowserManager.close: context.close() and playwright.stop()
CloseContext == [op |-> "close_context", page |-> PrimaryPage]

StopDriver == [op |-> "stop", page |-> PrimaryPage]

\* BrowserManager.navigate: page.goto(target_url) on the primary page
GotoIndex == [op |-> "goto", page |-> PrimaryPage]

\* the pair of worker w, in the order of worker_pages.append
buff_page(w) == 2 * w + 1

steam_page(w) == 2 * w + 2

\* A consumer that takes the first pair whatever its worker_id.
FirstWorkerPages(w) == {buff_page(0), steam_page(0)}

\* consumer(worker_id): buff_page, steam_page = worker_pages[worker_id]
worker_pages(w) == {buff_page(w), steam_page(w)}

\* the pages an extractor with the parameters (page, item, buff_page,
\* steam_page, worker_id) works on: the item URL and the cheap market on
\* buff_page, Steam on steam_page, nothing on `page`
ExtractorPages(page, pair) == pair

\* the pages with an operation of worker w in flight: those of its call
\* extract_detailed_item(page, item, buff_page=, steam_page=, worker_id=)
\* while the call runs; a call that does not reach the extractor (the log
\* line before it raises, or the keywords do not bind) touches no page
InFlight(w) ==
    IF wPc[w] = "extract" /\ ~SubscriptRaises
       /\ CallBinds("keywords", extractor_params)
    THEN ExtractorPages(PrimaryPage, worker_pages(w))
    ELSE {}

\* the pages of the events of kind op in a log, in order
RECURSIVE PagesOf(_, _)
PagesOf(log, op) ==
    IF log = <<>> THEN <<>>
    ELSE IF Head(log).op = op
         THEN <<Head(log).page>> \o PagesOf(Tail(log), op)
         ELSE PagesOf(Tail(log), op)

\* the orders sorted(items, key=profitability_percent, reverse=True) can
\* give, the keys not being modelled
Sorted(s) ==
    {[i \in 1 .. Len(s) |-> s[f[i]]] :
        f \in {g \in [1 .. Len(s) -> 1 .. Len(s)] :
                 \A i, j \in 1 .. Len(s) : i # j => g[i] # g[j]}}

\* python -m app.main: `from app.services.scraping import ScrapingService,
\* _format_item_display` raises ImportError when the name is not defined
ImportMain ==
    /\ runPc = "import"
    /\ runPc' = IF has_format_item_display THEN "scrape" ELSE "raised"
    /\ UNCHANGED <<pipelineVars, itemVars, navVars, feeVars, filterVars,
                   concurrent, async_storage, save_to_db, pageLog, json_data>>

\* scrape: the range check of --concurrent, then scrape_only up to the
\* `async with BrowserManager` of the method it calls: settings.headless =
\* headless raises ValueError and ScrapingService(settings) AttributeError
\* when Settings lacks the field, and a call that passes a keyword the
\* method does not have raises TypeError before the method runs
ScrapeCommand ==
    /\ runPc = "scrape"
    /\ IF ~ConcurrentInRange(concurrent)
       THEN /\ runPc' = "exit1"
            /\ UNCHANGED <<workers, wPc, wItem, inProgress>>
       ELSE IF SettingsRaise(SettingsAtStart) \/ ~ScrapeCallBinds
       THEN /\ runPc' = "raised"
            /\ UNCHANGED <<workers, wPc, wItem, inProgress>>
       ELSE /\ workers' = concurrent
            /\ wPc' = [w \in 0 .. (concurrent - 1) |-> "unstarted"]
            /\ wItem' = [w \in 0 .. (concurrent - 1) |-> NoneVal]
            /\ inProgress' = [w \in 0 .. (concurrent - 1) |-> {}]
            /\ runPc' = "browser"
    /\ UNCHANGED <<table, limit, wiringVars, prodVars, item_queue, results,
                   discarded_items, deqLog, outcome, storage_queue, storeVars,
                   mainPc, fed, itemVars, navVars, feeVars, filterVars, concurrent, async_storage,
                   save_to_db, pageLog, json_data>>

\* BrowserManager.__aenter__: start() launches the browser, opens the
\* primary page and adds the init script to it.  It can raise before the
\* page exists (the driver, the launch, new_page) or at add_init_script,
\* with the page opened; either way the block is not entered, __aexit__
\* does not run and nothing start() opened is closed
BrowserStart ==
    /\ runPc = "browser"
    /\ \E opened \in BOOLEAN :
          \E ok \in {b \in BOOLEAN : b => opened} :
             /\ pageLog' = IF opened
                           THEN Append(pageLog, NewPage(PrimaryPage))
                           ELSE pageLog
             /\ runPc' = IF ok THEN "navigate" ELSE "raised"
    /\ UNCHANGED <<pipelineVars, itemVars, navVars, feeVars, filterVars, concurrent,
                   async_storage, save_to_db, json_data>>

\* browser.navigate(self.settings.target_url): the goto of the index page;
\* when the goto or the read of the field raises, the `async with` block is
\* left through BrowserManager.close
IndexNavigate ==
    /\ runPc = "navigate"
    /\ \E ok \in {b \in BOOLEAN : b => ~SettingsRaise({"target_url"})} :
          IF ok
          THEN /\ pageLog' = Append(pageLog, GotoIndex)
               /\ runPc' = "filters"
          ELSE /\ pageLog' = pageLog \o <<CloseContext, StopDriver>>
               /\ runPc' = "raised"
    /\ UNCHANGED <<pipelineVars, itemVars, navVars, feeVars, filterVars, concurrent,
                   async_storage, save_to_db, json_data>>

\* the calls of configure_all_filters, in order
FilterSteps ==
    <<"close_modal", "currency", "sell_mode", "buy_mode", "balance_type",
      "price_volume", "platforms", "search">>

\* A step whose exception leaves configure_all_filters.
StepsLeftUnlessWarned(i, warned) == i < Len(FilterSteps) /\ ~warned

\* every step catches Exception and logs a warning: the next call of
\* configure_all_filters follows whatever the step did
StepsLeft(i, warned) == i < Len(FilterSteps)

\* one call of configure_all_filters: the step runs, or a UI action of it
\* raises inside its try and a warning is logged.  _configure_buy_mode
\* reads getattr(self.settings, "buy_mode", None), Settings has no such
\* field, and the step returns at `if not buy_mode` before its first UI
\* action: it has nothing to raise and never warns.  After
\* _execute_search, save_debug_files: it
\* reads settings.save_debug_info outside any try (the screenshot and the
\* HTML are saved inside one), and when the read raises the `async with`
\* block is left through BrowserManager.close; then on to the worker pages
FilterStep ==
    /\ runPc = "filters"
    /\ LET i == Len(filterLog) + 1
           warned == FilterSteps[i] # "buy_mode" /\ FilterSteps[i] \in filterFails
       IN  /\ filterLog' = Append(filterLog, [step |-> FilterSteps[i],
                                               warned |-> warned])
           /\ IF StepsLeft(i, warned)
              THEN /\ runPc' = "filters"
                   /\ UNCHANGED pageLog
              ELSE IF SettingsRaise({"save_debug_info"})
              THEN /\ runPc' = "raised"
                   /\ pageLog' = pageLog \o <<CloseContext, StopDriver>>
              ELSE /\ runPc' = "pages"
                   /\ UNCHANGED pageLog
    /\ UNCHANGED <<pipelineVars, itemVars, navVars, feeVars, filterFails, concurrent,
                   async_storage, save_to_db, json_data>>

\* one turn of `for worker_id in range(workers)`: the two new_page calls;
\* when one raises the `async with` block is left through
\* BrowserManager.close
NewWorkerPages ==
    /\ runPc = "pages"
    /\ Len(PagesOf(pageLog, "new")) < 1 + 2 * workers
    /\ LET w == (Len(PagesOf(pageLog, "new")) - 1) \div 2
           pair == <<NewPage(buff_page(w)), NewPage(steam_page(w))>>
       IN  \E created \in 0 .. 2 :
              IF created = 2
              THEN /\ pageLog' = pageLog \o pair
                   /\ UNCHANGED runPc
              ELSE /\ pageLog' = pageLog \o SubSeq(pair, 1, created)
                                    \o <<CloseContext, StopDriver>>
                   /\ runPc' = "raised"
    /\ UNCHANGED <<pipelineVars, itemVars, navVars, feeVars, filterVars, concurrent, async_storage,
                   save_to_db, json_data>>

\* Tasks created as soon as the first worker has its pages.
FirstPairCreated == Len(PagesOf(pageLog, "new")) >= 1 + 2

\* `for worker_id in range(workers)` has ended: the primary page and the
\* pairs of all workers exist
AllPagesCreated == Len(PagesOf(pageLog, "new")) = 1 + 2 * workers

\* the loop has ended: create_task of the producer, of the consumers and,
\* with async storage, of the storage worker
StartTasks ==
    /\ runPc = "pages"
    /\ AllPagesCreated
    /\ prodPc' = "extract"
    /\ wPc' = [w \in Workers |-> "get"]
    /\ stPc' = IF AsyncStorage THEN "get" ELSE stPc
    /\ mainPc' = "await_producer"
    /\ runPc' = "tasks"
    /\ UNCHANGED <<tableVars, rowDone, parseLog, items, prodIdx, prodSent,
                   item_queue, wItem, results, discarded_items, deqLog,
                   inProgress, outcome, storage_queue, stItem, saved_count,
                   batch, backend, fed, itemVars, navVars, feeVars, filterVars, concurrent,
                   async_storage, save_to_db, pageLog, json_data>>

\* scrape_items: await asyncio.gather(*consumer_tasks) returns; there is
\* no storage worker to signal
MainGatherTerminal ==
    /\ mainPc = "gather"
    /\ ~AsyncStorage
    /\ ConsumersFinished
    /\ mainPc' = "done"
    /\ UNCHANGED <<tableVars, runVars, feeVars, navVars, itemVars, prodVars,
                   item_queue, workerVars, storage_queue, storeVars, fed>>

\* one turn of `for buff_page, steam_page in worker_pages`: the two closes
CloseWorkerPages ==
    /\ runPc = "tasks"
    /\ mainPc = "done"
    /\ Len(PagesOf(pageLog, "close")) < 2 * workers
    /\ LET w == Len(PagesOf(pageLog, "close")) \div 2
       IN pageLog' = pageLog \o <<ClosePage(buff_page(w)),
                                   ClosePage(steam_page(w))>>
    /\ UNCHANGED <<pipelineVars, itemVars, navVars, feeVars, filterVars, concurrent, async_storage,
                   save_to_db, runPc, json_data>>

\* the `async with` block is left, after the close loop or by the exception
\* of the producer task or of a consumer task: BrowserManager.close
BrowserClose ==
    /\ runPc = "tasks"
    /\ \/ /\ mainPc = "done"
          /\ Len(PagesOf(pageLog, "close")) = 2 * workers
          /\ runPc' = "save"
       \/ /\ mainPc = "aborted"
          /\ runPc' = "raised"
    /\ pageLog' = pageLog \o <<CloseContext, StopDriver>>
    /\ UNCHANGED <<pipelineVars, itemVars, navVars, feeVars, filterVars, concurrent, async_storage,
                   save_to_db, json_data>>

\* A terminal save that does not test async_storage.
TerminalSaveAlways ==
    /\ runPc = "save"
    /\ IF save_to_db /\ results # <<>>
       THEN \E ok \in BOOLEAN :
               backend' = Append(backend, [items |-> results, ok |-> ok])
       ELSE UNCHANGED backend
    /\ runPc' = "json"
    /\ UNCHANGED <<tableVars, prodVars, item_queue, workerVars, storage_queue,
                   stPc, stItem, saved_count, batch, mainPc, fed, itemVars,
                   navVars, feeVars, filterVars, concurrent, async_storage, save_to_db,
                   pageLog, json_data>>

\* scrape_only: `if save_to_db and not async_storage and items`, one
\* save_items(items) whose failure is logged
TerminalSave ==
    /\ runPc = "save"
    /\ IF save_to_db /\ ~async_storage /\ results # <<>>
       THEN \E ok \in BOOLEAN :
               backend' = Append(backend, [items |-> results, ok |-> ok])
       ELSE UNCHANGED backend
    /\ runPc' = "json"
    /\ UNCHANGED <<tableVars, prodVars, item_queue, workerVars, storage_queue,
                   stPc, stItem, saved_count, batch, mainPc, fed, itemVars,
                   navVars, feeVars, filterVars, concurrent, async_storage, save_to_db, pageLog,
                   json_data>>

\* the fields of ScrapedItem
ScrapedItemFields ==
    {"item_name", "url", "steam_url", "buff_url", "buff_avg_price_eur",
     "steam_avg_price_eur", "buff_volume", "steam_volume", "profit_eur",
     "profitability_percent", "profitability_ratio", "scraped_at", "source"}

\* the attributes of an item that its entry of json_data reads
JsonEntryReads ==
    {"item_name", "quality", "stattrak", "profitability_percent",
     "profit_eur", "buff_url", "buff_avg_price_eur", "steam_url",
     "steam_avg_price_eur", "scraped_at"}

\* reading an attribute the model does not have raises AttributeError
JsonEntryRaises(fields) == ~(JsonEntryReads \subseteq fields)

\* scrape_only: json_data gets an entry for each of the sorted items, then
\* one for each of the discarded items, and is written to the output file;
\* an exception while the entries are built leaves scrape_only before the
\* file is opened
WriteJson ==
    /\ runPc = "json"
    /\ IF results # <<>> /\ JsonEntryRaises(ScrapedItemFields)
       THEN /\ runPc' = "raised"
            /\ UNCHANGED json_data
       ELSE /\ \E valid \in Sorted(results) :
                  json_data' = [written |-> TRUE, valid |-> valid,
                                discarded |-> discarded_items]
            /\ runPc' = "exit0"
    /\ UNCHANGED <<pipelineVars, itemVars, navVars, feeVars, filterVars, concurrent, async_storage,
                   save_to_db, pageLog>>

RunLimit == 2

\* the limit argument of the runs followed: rows[:limit]; a run with more
\* than MaxWorkers workers is followed on one candidate
LimitOf(c) == IF c <= MaxWorkers THEN RunLimit ELSE 1

\* the failing filter steps of the runs followed: none, or all of them
RunFilterFails == {{}, Range(FilterSteps)}

\* the runs followed: the repository as it is, then with the import
\* resolved, then with the fields of settings that scrape_only needs, then
\* with the call of scrape_only bound to a method, then with the fields of
\* settings the method reads, and from there with the candidates and the
\* extractor of PipelineWirings
RunWirings ==
    {[imports |-> FALSE, settings |-> {}, binds |-> FALSE,
      item_type |-> "Skin", extractor_params |-> "page_skin"],
     [imports |-> TRUE, settings |-> {}, binds |-> FALSE,
      item_type |-> "Skin", extractor_params |-> "page_skin"],
     [imports |-> TRUE, settings |-> SettingsAtStart, binds |-> FALSE,
      item_type |-> "Skin", extractor_params |-> "page_skin"]}
    \cup {[imports |-> TRUE, settings |-> fields, binds |-> TRUE,
           item_type |-> "Skin", extractor_params |-> "page_skin"] :
             fields \in SettingsOptions \ {SettingsRead}}
    \cup {[imports |-> TRUE, settings |-> SettingsRead, binds |-> TRUE,
           item_type |-> w.item_type,
           extractor_params |-> w.extractor_params] : w \in PipelineWirings}

InitRun ==
    /\ workers = 0
    /\ table = [r \in 1 .. MaxRows |-> "skin"]
    /\ concurrent \in ConcurrentOptions
    /\ async_storage \in BOOLEAN
    /\ save_to_db \in BOOLEAN
    /\ \E wiring \in RunWirings :
          /\ has_format_item_display = wiring.imports
          /\ settings_fields = wiring.settings
          /\ scrape_call = IF wiring.binds
                           THEN Dispatch(async_storage /\ save_to_db)
                           ELSE CallAsWritten
          /\ item_type = wiring.item_type
          /\ extractor_params = wiring.extractor_params
    /\ exclusion_filters \in FilterOptions
    /\ limit = LimitOf(concurrent)
    /\ rowDone = {}
    /\ parseLog = <<>>
    /\ items = <<>>
    /\ prodPc = "unstarted"
    /\ prodIdx = 0
    /\ prodSent = 0
    /\ item_queue = <<>>
    /\ wPc = <<>>
    /\ wItem = <<>>
    /\ results = <<>>
    /\ discarded_items = <<>>
    /\ storage_queue = <<>>
    /\ stPc = "unstarted"
    /\ stItem = NoneVal
    /\ saved_count = 0
    /\ batch = <<>>
    /\ backend = <<>>
    /\ mainPc = "unstarted"
    /\ deqLog = <<>>
    /\ inProgress = <<>>
    /\ outcome = [r \in 1 .. MaxRows |-> "pending"]
    /\ fed = 0
    /\ ItemIdle
    /\ NavIdle
    /\ runPc = "import"
    /\ pageLog = <<>>
    /\ json_data = [written |-> FALSE, valid |-> <<>>, discarded |-> <<>>]
    /\ filterLog = <<>>
    /\ filterFails \in RunFilterFails
    /\ FeeIdle

NextRun ==
    \/ ImportMain
    \/ ScrapeCommand
    \/ BrowserStart
    \/ IndexNavigate
    \/ FilterStep
    \/ NewWorkerPages
    \/ StartTasks
    \/ \E r \in Rows : ParseRow(r)
    \/ ExtractItemsReturn
    \/ ExtractItemsRaise
    \/ ProducerPut
    \/ ProducerPutSentinel
    \/ ProducerFinish
    \/ \E w \in Workers : WorkerGet(w)
    \/ \E w \in Workers : WorkerProcess(w)
    \/ \E w \in Workers : WorkerSleepDone(w)
    \/ StorageGet
    \/ StorageSaved
    \/ MainAwaitProducer
    \/ MainGatherRaises
    \/ MainSignalStorage
    \/ MainGatherTerminal
    \/ MainAwaitStorage
    \/ CloseWorkerPages
    \/ BrowserClose
    \/ TerminalSave
    \/ WriteJson

SpecRun == InitRun /\ [][NextRun]_vars

\* The event loop runs every task that is ready, and every await of the run
\* other than a queue get ends.
FairSpecRun == InitRun /\ [][NextRun]_vars /\ WF_vars(NextRun)

(***************************************************************************)
(* FilterManager.configure_all_filters on the index page of a run with one *)
(* worker, whatever steps fail                                             *)
(***************************************************************************)

InitFilters ==
    /\ workers = 1
    /\ table = [r \in 1 .. MaxRows |-> "skin"]
    /\ PipelineIdle
    /\ scrape_call = "scrape_items_with_async_storage"
    /\ has_format_item_display = FALSE
    /\ settings_fields = SettingsRead
    /\ concurrent = 1
    /\ limit = LimitOf(concurrent)
    /\ rowDone = {}
    /\ parseLog = <<>>
    /\ items = <<>>
    /\ prodPc = "unstarted"
    /\ prodIdx = 0
    /\ prodSent = 0
    /\ item_queue = <<>>
    /\ wPc = [w \in Workers |-> "unstarted"]
    /\ wItem = [w \in Workers |-> NoneVal]
    /\ results = <<>>
    /\ discarded_items = <<>>
    /\ storage_queue = <<>>
    /\ stPc = "unstarted"
    /\ stItem = NoneVal
    /\ saved_count = 0
    /\ batch = <<>>
    /\ backend = <<>>
    /\ mainPc = "unstarted"
    /\ deqLog = <<>>
    /\ inProgress = [w \in Workers |-> {}]
    /\ outcome = [r \in 1 .. MaxRows |-> "pending"]
    /\ fed = 0
    /\ ItemIdle
    /\ NavIdle
    /\ async_storage = TRUE
    /\ save_to_db = TRUE
    /\ runPc = "filters"
    /\ pageLog = <<NewPage(PrimaryPage), GotoIndex>>
    /\ json_data = [written |-> FALSE, valid |-> <<>>, discarded |-> <<>>]
    /\ filterLog = <<>>
    /\ filterFails \in SUBSET Range(FilterSteps)
    /\ FeeIdle

NextFilters == FilterStep

SpecFilters == InitFilters /\ [][NextFilters]_vars

(***************************************************************************)
(* rules.py: fees, profit, ROI and currency conversion.  Prices are whole  *)
(* amounts of the currency; amounts returned are in thousandths.           *)
(***************************************************************************)

\* STEAM_FEE_PERCENT = 13.0, in tenths of a percent
STEAM_FEE_PERCENT == 130

\* BUFF_FEE_PERCENT = 2.5, in tenths of a percent
BUFF_FEE_PERCENT == 25

\* CNY_TO_EUR = 8.2 of _calculate_profitability, in tenths
ProfitabilityCnyToEur == 82

\* price * (FEE_PERCENT / 100)
calculate_fees(price, market) ==
    CASE market = "steam" -> price * STEAM_FEE_PERCENT
      [] market = "buff" -> price * BUFF_FEE_PERCENT
      [] market \in {"c5game", "uu"} -> price * BUFF_FEE_PERCENT

\* revenue_after_fees - cost_with_fees
calculate_profit(buy_price, sell_price) ==
    LET cost_with_fees == buy_price * 1000 + calculate_fees(buy_price, "buff")
        revenue_after_fees ==
            sell_price * 1000 - calculate_fees(sell_price, "steam")
    IN revenue_after_fees - cost_with_fees

\* (profit / investment) * 100, in hundredths of a percent, rounded down
calculate_roi(buy_price, sell_price) ==
    LET profit == calculate_profit(buy_price, sell_price)
        investment == buy_price * 1000 + calculate_fees(buy_price, "buff")
    IN IF investment = 0 THEN 0 ELSE (profit * 100 * 100) \div investment

\* buff_avg_cny / CNY_TO_EUR of _calculate_profitability, rounded down
ProfitabilityEur(avg_cny) == (avg_cny * 1000 * 10) \div ProfitabilityCnyToEur

\* prices the functions are called with
Prices == {0, 1, 73, 100, 120}

CalculateProfit ==
    /\ "profit" \notin feeDone
    /\ feeOut' = [feeOut EXCEPT
                    !.profit = calculate_profit(feeIn.buy_price,
                                                feeIn.sell_price)]
    /\ feeDone' = feeDone \cup {"profit"}
    /\ UNCHANGED <<pipelineVars, itemVars, navVars, runVars, feeIn>>

CalculateRoi ==
    /\ "roi" \notin feeDone
    /\ feeOut' = [feeOut EXCEPT
                    !.roi = calculate_roi(feeIn.buy_price, feeIn.sell_price)]
    /\ feeDone' = feeDone \cup {"roi"}
    /\ UNCHANGED <<pipelineVars, itemVars, navVars, runVars, feeIn>>

\* SteamExtractor.extract_selling_items converts a listing price in CNY
\* when the price is above 0; a row whose price is not is skipped and
\* nothing is converted
ConvertCnyToEur ==
    /\ "convert" \notin feeDone
    /\ IF feeIn.price_cny > 0
       THEN /\ feeOut' = [feeOut EXCEPT
                            !.price_eur = convert_cny_to_eur(feeIn.price_cny)]
            /\ feeDone' = feeDone \cup {"convert"}
       ELSE UNCHANGED <<feeOut, feeDone>>
    /\ UNCHANGED <<pipelineVars, itemVars, navVars, runVars, feeIn>>

\* _calculate_profitability converts an average price in CNY
ConvertAverage ==
    /\ "average" \notin feeDone
    /\ feeOut' = [feeOut EXCEPT
                    !.avg_eur = ProfitabilityEur(feeIn.price_cny)]
    /\ feeDone' = feeDone \cup {"average"}
    /\ UNCHANGED <<pipelineVars, itemVars, navVars, runVars, feeIn>>

InitFees ==
    /\ workers = 1
    /\ table = [r \in 1 .. MaxRows |-> "skin"]
    /\ limit = NoneVal
    /\ PipelineIdle
    /\ rowDone = {}
    /\ parseLog = <<>>
    /\ items = <<>>
    /\ prodPc = "done"
    /\ prodIdx = 0
    /\ prodSent = 0
    /\ item_queue = <<>>
    /\ wPc = [w \in Workers |-> "done"]
    /\ wItem = [w \in Workers |-> NoneVal]
    /\ results = <<>>
    /\ discarded_items = <<>>
    /\ storage_queue = <<>>
    /\ stPc = "done"
    /\ stItem = NoneVal
    /\ saved_count = 0
    /\ batch = <<>>
    /\ backend = <<>>
    /\ mainPc = "done"
    /\ deqLog = <<>>
    /\ inProgress = [w \in Workers |-> {}]
    /\ outcome = [r \in 1 .. MaxRows |-> "pending"]
    /\ fed = 0
    /\ ItemIdle
    /\ NavIdle
    /\ RunIdle
    /\ feeIn \in [buy_price : Prices, sell_price : Prices, price_cny : Prices]
    /\ feeOut = [profit |-> 0, roi |-> 0, price_eur |-> 0, avg_eur |-> 0]
    /\ feeDone = {}

NextFees ==
    \/ CalculateProfit
    \/ CalculateRoi
    \/ ConvertCnyToEur
    \/ ConvertAverage

SpecFees == InitFees /\ [][NextFees]_vars

\* every candidate that was put on item_queue or taken by a worker
Enqueued ==
    (Range(enqLog) \cup Range(item_queue) \cup Range(deqLog)
        \cup {wItem[w] : w \in Workers}) \ {NoneVal}

\* C11: no row whose name starts with Sticker, contains Music Kit or
\* contains no '|' is ever returned by the index extractor, put on
\* item_queue or taken by a scraper worker.
C11_HardExcludedNeverQueued ==
    \A r \in Range(items) \cup Enqueued :
        /\ ~StartsWithSticker(NameOf(table[r]))
        /\ ~ContainsMusicKit(NameOf(table[r]))
        /\ ContainsPipe(NameOf(table[r]))

C11_Witness ==
    /\ table = <<"musickit", "case", "souvenir">>
    /\ prodPc = "done"
    /\ deqLog = <<3>>
    /\ wPc[0] = "done"

\* the extraction on a market has been started
Started(site) == \E i \in 1 .. Len(navLog) : navLog[i].site = site

\* extract_detailed_item has returned
Emitted == dPc = "returned"

\* C12: once the market extractions have run, the candidate is recorded
\* either as accepted or as discarded with the reason of the first gate
\* that fails: 'BUFF validation failed' when the cheap snapshot is nil,
\* 'Steam extraction failed' when only the steam snapshot is nil.
C12_Classified ==
    (Emitted /\ Started("buff")) =>
        /\ WorkerOutcome(detailed_data) \in {"data", "discard"}
        /\ ~buff_data.ok =>
              /\ detailed_data.kind = "discarded"
              /\ detailed_data.reason = "BUFF validation failed"
        /\ (buff_data.ok /\ ~steam_data.ok) =>
              /\ detailed_data.kind = "discarded"
              /\ detailed_data.reason = "Steam extraction failed"

\* C13: the cheap-market and the steam-market extraction of a candidate
\* run on two distinct pages, and when one returns nil the other has still
\* been started by the time the item is emitted.
C13_ParallelExtraction ==
    /\ \A i, j \in 1 .. Len(navLog) :
          (navLog[i].site = "buff" /\ navLog[j].site = "steam") =>
              navLog[i].page # navLog[j].page
    /\ (Emitted /\ Started("buff")) => Started("steam")

\* the operations of the retry, from the goto that was aborted
RetrySequence ==
    <<Goto("selling", "domcontentloaded", 15000),
      Sleep(8000, 15000),
      Goto("about:blank", "domcontentloaded", 5000),
      Sleep(2000, 2000),
      Goto("selling", "load", 30000)>>

\* the extractor is past the navigation to its market URL
BuffNavigated == \E i \in 1 .. Len(bLog) : bLog[i] = Sleep(5000, 5000)

SteamNavigated == \E i \in 1 .. Len(sLog) : sLog[i] = Sleep(5000, 5000)

\* C14: in the cheap-market extractor an aborted first goto is retried
\* exactly once, by the operations of RetrySequence in that order; the
\* market URL is never navigated to more than twice; when the retry fails
\* the extractor returns nil, and when it succeeds the extraction goes on
\* and returns a snapshot unless the content of the page rules it out.
C14_RetryOnce ==
    /\ Cardinality(GotosOf(bLog, "selling")) <= 2
    /\ (script.first = "aborted" /\ bPc \in {"listings", "history", "done"})
          => /\ Len(bLog) >= 6
             /\ SubSeq(bLog, 2, 6) = RetrySequence
    /\ (script.first = "aborted" /\ script.second # "ok" /\ bPc = "done")
          => /\ bResult = "nil"
             /\ Len(bLog) = 6
    /\ (script.first = "aborted" /\ script.second = "ok" /\ bPc = "done")
          => /\ BuffNavigated
             /\ bSeen.gate = "pass" => bResult = "snapshot"

C14_Witness ==
    /\ script.first = "aborted"
    /\ script.second = "ok"
    /\ bResult = "snapshot"
    /\ Cardinality(GotosOf(bLog, "selling")) = 2

\* C15: a goto that exceeds its timeout is retried once, as an aborted goto
\* is, and the extractor returns nil only when the retry fails as well.
C15_TimeoutRetried ==
    (script.first = "timeout" /\ bPc = "done" /\ sPc = "done") =>
        /\ Cardinality(GotosOf(bLog, "selling")) = 2
        /\ Cardinality(GotosOf(sLog, "steam")) = 2
        /\ script.second = "ok" => BuffNavigated /\ SteamNavigated

\* C16: on the same outcomes of the gotos of their market URL the two
\* extractors navigate to it the same number of times and both get past
\* the navigation, or both return nil.
C16_SameNavContract ==
    (bPc = "done" /\ sPc = "done") =>
        /\ Cardinality(GotosOf(bLog, "selling")) =
              Cardinality(GotosOf(sLog, "steam"))
        /\ BuffNavigated = SteamNavigated

\* C17: the price-falling gate fails exactly when both price sets are
\* non-empty and the average trade price is <= 0.90 times the average
\* listing price.
C17_PriceFallingGate ==
    bSeen.gate # "unset" =>
        ((bSeen.gate = "fail") <=>
            /\ bSeen.selling_items # <<>>
            /\ bSeen.trade_records # <<>>
            /\ SeqSum(bSeen.trade_records) * Len(bSeen.selling_items) * 100
                  <= SeqSum(bSeen.selling_items) * Len(bSeen.trade_records)
                       * 90)

\* C18: an item is accepted only when the total volume of both markets is
\* at least the floor of 20, and a candidate that passes every other gate
\* is discarded with the low-volume reason of the first market below it.
C18_LiquidityGate ==
    (/\ Emitted
     /\ buff_data.ok
     /\ steam_data.ok
     /\ AnalysisValid(buff_data, steam_data)) =>
        /\ detailed_data.kind = "MarketData" =>
              shown.buff >= 20 /\ shown.steam >= 20
        /\ shown.buff < 20 =>
              /\ detailed_data.kind = "discarded"
              /\ detailed_data.reason = "Low cheap-market volume"
        /\ (shown.buff >= 20 /\ shown.steam < 20) =>
              /\ detailed_data.kind = "discarded"
              /\ detailed_data.reason = "Low steam-market volume"

\* C19: an exception while a candidate is processed does not end the
\* worker, which goes back to reading the queue with nothing in progress;
\* a worker exits only by taking a sentinel from item_queue.
C19_ExceptionKeepsWorker ==
    [][\A w \in Workers :
          /\ (wPc[w] \notin {"done", "failed"}
                  /\ wPc'[w] \in {"done", "failed"}) =>
                /\ wPc[w] = "get"
                /\ item_queue # <<>>
                /\ Head(item_queue) = NoneVal
                /\ item_queue' = Tail(item_queue)
          /\ (wItem[w] # NoneVal /\ wItem'[w] = NoneVal
                  /\ outcome'[wItem[w]] = "exc") =>
                /\ wPc'[w] = "get"
                /\ inProgress'[w] = {}]_vars

\* C20: after every candidate a worker has processed, whatever the outcome,
\* the worker sleeps before it reads the queue again.
C20_SleepAfterEveryItem ==
    [][\A w \in Workers :
          (wItem[w] # NoneVal /\ wItem'[w] = NoneVal) =>
              wPc'[w] = "sleep"]_vars

\* the first goto of url in a log comes after a wait drawn from 2000 .. 5000
FirstGotoDelayed(log, url) ==
    \A i \in GotosOf(log, url) :
        (\A j \in GotosOf(log, url) : i <= j) =>
            \E k \in 1 .. i - 1 : log[k] = Sleep(2000, 5000)

\* C21: every market extraction, on the cheap market and on the steam
\* market, waits a random 2000-5000 ms on its page before its first goto of
\* the market URL.
C21_InitialDelay ==
    /\ FirstGotoDelayed(bLog, "selling")
    /\ FirstGotoDelayed(sLog, "steam")

\* C22: worker page pairs are created one worker at a time, with a wait of
\* 5 s before the pair of every worker but the first, and all N pairs exist
\* before any scraper worker starts.
C22_StaggeredCreation ==
    runPc # "raised" =>
        /\ \A i \in 1 .. Len(pageLog) :
              (/\ pageLog[i].op = "new"
               /\ \E w \in 1 .. (workers - 1) :
                      pageLog[i].page = buff_page(w))
                  => pageLog[i - 1].op = "sleep"
        /\ \A w \in Workers :
              wPc[w] # "unstarted" =>
                  Len(PagesOf(pageLog, "new")) = 1 + 2 * workers

\* the pages closed so far, in order; context.close() closes the primary
\* page
ClosedPages ==
    PagesOf(pageLog, "close") \o PagesOf(pageLog, "close_context")

\* C23: at the end of a run that did not end by an error, the worker pages and
\* then the primary page are closed in the reverse of the order of their
\* creation, only after every scraper worker and the storage worker have
\* exited, and the driver is stopped last.
C23_ReverseCloseOrder ==
    runPc # "raised" =>
        /\ \A i \in 1 .. Len(ClosedPages) :
              ClosedPages[i] =
                  PagesOf(pageLog, "new")[Len(PagesOf(pageLog, "new")) + 1 - i]
        /\ ClosedPages # <<>> =>
              /\ \A w \in Workers : wPc[w] = "done"
              /\ stPc \in {"done", "unstarted"}
        /\ \A i \in 1 .. Len(pageLog) :
              pageLog[i].op = "stop" => i = Len(pageLog)

\* C27: the number of scraper workers and of worker page pairs of a run is
\* between 1 and 5; a --concurrent value outside 1..5 makes the command
\* exit 1 before the browser is started and never reaches the pipeline.
C27_WorkersInRange ==
    /\ Cardinality({w \in DOMAIN wPc : wPc[w] # "unstarted"}) <= 5
    /\ Len(PagesOf(pageLog, "new")) <= 1 + 2 * 5
    /\ (pageLog # <<>> \/ prodPc # "unstarted") =>
          /\ concurrent \in 1 .. 5
          /\ workers = concurrent
    /\ runPc = "tasks" =>
          Cardinality({w \in DOMAIN wPc : wPc[w] # "unstarted"}) \in 1 .. 5
    /\ concurrent \notin 1 .. 5 =>
          /\ runPc \in {"import", "scrape", "exit1"}
                \/ (runPc = "raised" /\ ~has_format_item_display)
          /\ pageLog = <<>>
          /\ workers = 0
          /\ prodPc = "unstarted"
          /\ mainPc = "unstarted"
    /\ runPc = "exit1" => concurrent \notin 1 .. 5

C27_Witness ==
    /\ concurrent = 6
    /\ runPc = "exit1"
    /\ pageLog = <<>>

\* C24: profit_eur(buy, sell) is sell * 0.87 - buy, with no fee on the
\* purchase; profit_eur(100, 120) is 4.40.
C24_ProfitFormula ==
    "profit" \in feeDone =>
        /\ feeOut.profit = 870 * feeIn.sell_price - 1000 * feeIn.buy_price
        /\ (feeIn.buy_price = 100 /\ feeIn.sell_price = 120) =>
              feeOut.profit = 4400

\* C25: roi_percent(buy, sell) is 0 when buy is 0 and otherwise
\* (sell * 0.87 / buy - 1) * 100, to a hundredth of a percent;
\* roi_percent(100, 120) is 4.40.
C25_RoiFormula ==
    "roi" \in feeDone =>
        /\ feeIn.buy_price = 0 => feeOut.roi = 0
        /\ feeIn.buy_price # 0 =>
              feeOut.roi =
                  ((870 * feeIn.sell_price - 1000 * feeIn.buy_price) * 100 * 100)
                      \div (1000 * feeIn.buy_price)
        /\ (feeIn.buy_price = 100 /\ feeIn.sell_price = 120) =>
              feeOut.roi = 440

\* the amount eur, in thousandths, times 8.2 gives back the price cny, up
\* to the rounding of the division
RoundTrips(eur, cny) ==
    /\ eur * 82 <= cny * 1000 * 10
    /\ cny * 1000 * 10 - eur * 82 < 82

\* C26: every conversion from CNY to EUR, of a steam listing price and in
\* the profitability calculation, divides by 8.2:
\* convert_cny_to_eur(p) * 8.2 = p.
C26_OneRate ==
    /\ "convert" \in feeDone => RoundTrips(feeOut.price_eur, feeIn.price_cny)
    /\ "average" \in feeDone => RoundTrips(feeOut.avg_eur, feeIn.price_cny)

\* the scrape has returned and the terminal save, if any, has been made
ScrapeSaved == runPc \in {"json", "exit0"}

\* C28: with async storage and with the terminal save alike, when the
\* backend accepts every save the store is handed exactly the accepted
\* items, each once, and the run returns the candidates whose extraction
\* gave data as accepted and those it discarded as discarded.
C28_ModesAgree ==
    (ScrapeSaved /\ \A i \in 1 .. Len(backend) : backend[i].ok) =>
        /\ save_to_db => Submitted = results
        /\ ~save_to_db => Submitted = <<>>
        /\ \A r \in 1 .. MaxRows :
              /\ Count(r, results) = IF outcome[r] = "data" THEN 1 ELSE 0
              /\ Count(r, discarded_items) =
                    IF outcome[r] = "discard" THEN 1 ELSE 0

C28_Witness ==
    /\ runPc = "json"
    /\ save_to_db
    /\ ~async_storage
    /\ Len(results) = 2
    /\ backend = <<[items |-> results, ok |-> TRUE]>>

\* a save handed to the store has failed
FailedSave == \E i \in 1 .. Len(backend) : ~backend[i].ok

\* C29: a failed save, of an item by the storage worker or of the terminal
\* save, does not abort the run, and every accepted and every discarded
\* item collected is written to the JSON output, which is always reached
\* after a failed save.
C29_PartialFlush ==
    /\ [](/\ FailedSave => (mainPc # "aborted" /\ runPc # "raised")
          /\ runPc = "exit0" =>
                /\ json_data.written
                /\ \A r \in 1 .. MaxRows :
                      /\ Count(r, json_data.valid) =
                            IF outcome[r] = "data" THEN 1 ELSE 0
                      /\ Count(r, json_data.discarded) =
                            IF outcome[r] = "discard" THEN 1 ELSE 0)
    /\ (FailedSave ~> (runPc = "exit0" /\ json_data.written))

\* C30: a market extractor never returns a snapshot without listings: it
\* returns nil when no row has a positive price, and a row without one is
\* skipped, the other rows of the page being kept.
C30_NoEmptySnapshot ==
    /\ bResult = "snapshot" =>
          /\ bSeen.selling_items # <<>>
          /\ \A i \in 1 .. Len(bSeen.selling_items) : bSeen.selling_items[i] > 0
    /\ sResult = "snapshot" =>
          /\ sSeen.selling_items # <<>>
          /\ \A i \in 1 .. Len(sSeen.selling_items) : sSeen.selling_items[i] > 0
    /\ \A rows \in rowsRead.buff :
          IF \E i \in 1 .. Len(rows) : rows[i] > 0
          THEN /\ Len(bSeen.selling_items) =
                     Cardinality({i \in 1 .. Len(rows) : rows[i] > 0})
               /\ bPc = "history" \/ GotosOf(bLog, "history") # {}
          ELSE bPc = "done" /\ bResult = "nil"
    /\ \A rows \in rowsRead.steam :
          IF \E i \in 1 .. Len(rows) : rows[i] > 0
          THEN /\ Len(sSeen.selling_items) =
                     Cardinality({i \in 1 .. Len(rows) : rows[i] > 0})
               /\ sResult = "snapshot"
          ELSE sPc = "done" /\ sResult = "nil"

C30_Witness ==
    /\ rowsRead.buff = {<<EmptyPrice, 1000>>}
    /\ bResult = "snapshot"
    /\ bSeen.selling_items = <<1000>>
    /\ rowsRead.steam = {<<EmptyPrice>>}
    /\ sResult = "nil"

\* the largest page number among the links whose href parses, 1 if none
LargestPage(links) ==
    LET nums == {links[i].n : i \in {j \in 1 .. Len(links) :
                                        links[j].kind = "number"}} \cup {1}
    IN  CHOOSE m \in nums : \A n \in nums : n <= m

\* C31 as stated: with pager links the total volume is max_page times the
\* number of rows on the current page, and without links it is the number
\* of rows on the current page (reading the pager not having failed).
C31_VolumeIsPagesTimesRows ==
    \A rows \in rowsRead.buff :
        (rows # <<>> /\ ~rowsRead.pager.failed) =>
            IF rowsRead.pager.links # <<>>
            THEN bSeen.total_volume = LargestPage(rowsRead.pager.links) * Len(rows)
            ELSE bSeen.total_volume = Len(rows)

\* C31: with pager links the total volume is max_page times the number of
\* tr.selling rows on the current page, 10 standing for that number when the
\* page has no such row; without links, or when reading the pager fails, it
\* is the number of tr.selling rows, or of generic table rows when there is
\* no tr.selling row; it is 0 when no table loads.
C31_TotalVolume ==
    \A rows \in rowsRead.buff :
        LET pager == rowsRead.pager
            n == IF pager.selling THEN Len(rows) ELSE 0
        IN  IF rows = <<>> THEN bSeen.total_volume = 0
            ELSE IF pager.links # <<>> /\ ~pager.failed
            THEN bSeen.total_volume
                     = LargestPage(pager.links) * (IF n = 0 THEN 10 ELSE n)
            ELSE bSeen.total_volume = Len(rows)

C31_Witness ==
    /\ rowsRead.buff = {<<800, 1200>>}
    /\ rowsRead.pager.links # <<>>
    /\ LargestPage(rowsRead.pager.links) = 3
    /\ ~rowsRead.pager.selling
    /\ ~rowsRead.pager.failed
    /\ bSeen.total_volume = 30
    /\ bResult = "snapshot"

\* C32: an aborted goto of the history URL is retried once, after the
\* blank-page reset, and trades are read only from a page whose goto of
\* the history URL succeeded.
C32_HistoryRecovery ==
    /\ (bPc = "done" /\ bSeen.history = "aborted") =>
          /\ Cardinality(GotosOf(bLog, "history")) = 2
          /\ Cardinality(GotosOf(bLog, "about:blank")) >= 1
    /\ bSeen.trade_records # <<>> => bSeen.history = "ok"

\* C33: when the goto of the history URL times out the extractor goes on
\* with no trades: the gate passes and the snapshot returned has zero
\* trades.
C33_TimeoutMeansNoTrades ==
    (bPc = "done" /\ bSeen.history = "timeout") =>
        /\ bSeen.trade_records = <<>>
        /\ bSeen.gate = "pass"
        /\ bResult = "snapshot"

\* C34: the filter steps run in the fixed order close modal, currency,
\* sell mode, buy mode, balance type, price/volume, platforms, search; a
\* step that failed and logged its warning is followed by every later
\* step, and configure_all_filters is left only after the search step was
\* attempted, whatever steps failed.
C34_FiltersBestEffort ==
    /\ Len(filterLog) <= Len(FilterSteps)
    /\ \A i \in 1 .. Len(filterLog) : filterLog[i].step = FilterSteps[i]
    /\ runPc = "filters" <=> Len(filterLog) < Len(FilterSteps)
    /\ runPc # "filters" =>
          /\ runPc = "pages"
          /\ filterLog[Len(filterLog)].step = "search"
          /\ \A i \in 1 .. Len(filterLog) :
                filterLog[i].warned =>
                   \A j \in (i + 1) .. Len(FilterSteps) :
                      filterLog[j].step = FilterSteps[j]

C34_Witness ==
    /\ runPc = "pages"
    /\ Len(filterLog) = Len(FilterSteps)
    /\ filterLog[1].warned
    /\ filterLog[3].warned
    /\ ~filterLog[4].warned
    /\ filterLog[5].warned
    /\ filterLog[8].step = "search"
    /\ filterLog[8].warned

\* a producer, scraper worker or storage worker task has been created
TaskStarted ==
    \/ prodPc # "unstarted"
    \/ stPc # "unstarted"
    \/ \E w \in DOMAIN wPc : wPc[w] # "unstarted"

\* the position of the first event e in the page log, 0 when absent
FirstAt(e) ==
    IF \E i \in 1 .. Len(pageLog) : pageLog[i] = e
    THEN CHOOSE i \in 1 .. Len(pageLog) :
            /\ pageLog[i] = e
            /\ \A j \in 1 .. (i - 1) : pageLog[j] # e
    ELSE 0

\* C35: start-up is ordered: the primary page is opened and the index page
\* loaded before any filter step, all filter steps up to the search have
\* run before a worker page is created, and all N page pairs exist before
\* a task is started or a candidate dequeued; a run whose browser start,
\* index load or page creation failed never starts a task.
C35_StartupOrder ==
    /\ filterLog # <<>> =>
          /\ FirstAt(NewPage(PrimaryPage)) = 1
          /\ FirstAt(GotoIndex) = 2
    /\ (\E w \in 0 .. (workers - 1) :
           FirstAt(NewPage(buff_page(w))) # 0
           \/ FirstAt(NewPage(steam_page(w))) # 0) =>
          /\ Len(filterLog) = Len(FilterSteps)
          /\ filterLog[Len(filterLog)].step = "search"
    /\ (TaskStarted \/ deqLog # <<>>) =>
          /\ Len(filterLog) = Len(FilterSteps)
          /\ \A w \in 0 .. (workers - 1) :
                /\ FirstAt(NewPage(buff_page(w))) > FirstAt(GotoIndex)
                /\ FirstAt(NewPage(steam_page(w)))
                      = FirstAt(NewPage(buff_page(w))) + 1
          /\ runPc \notin {"import", "scrape", "browser", "navigate", "filters",
                          "pages"}
    /\ (runPc = "raised"
        /\ Len(PagesOf(pageLog, "new")) < 1 + 2 * workers) =>
          /\ ~TaskStarted
          /\ deqLog = <<>>

C35_Witness ==
    /\ workers = 2
    /\ deqLog # <<>>
    /\ Len(filterLog) = Len(FilterSteps)
    /\ filterLog[1].warned
    /\ Len(PagesOf(pageLog, "new")) = 5

C36_DequeuedExactlyOnce ==
    /\ \A c \in Rows :
          /\ Count(c, deqLog) <= 1
          /\ Count(c, deqLog) <= Count(c, enqLog)
          /\ Cardinality({w \in Workers : c \in inProgress[w]}) <= 1
          /\ Count(c, results) + Count(c, discarded_items) <= 1
          /\ Count(c, enqLog) = Count(c, deqLog) + Count(c, item_queue)
    /\ AllWorkersExited =>
          /\ item_queue = <<>>
          /\ \A c \in Rows :
                Count(c, enqLog) = 1 =>
                    /\ Count(c, deqLog) = 1
                    /\ outcome[c] # "pending"
                    /\ \A w \in Workers : c \notin inProgress[w]

\* every item put on storage_queue so far, in put order: those handed to
\* save_items, the one being saved, and those still waiting
SentToStorage ==
    Submitted \o (IF stItem # NoneVal THEN <<stItem>> ELSE <<>>)
              \o Candidates(storage_queue)

\* C37: with a storage queue in use, an item put on the storage queue is
\* already in results, a candidate that was discarded, returned nothing or
\* raised is never put on it, and once every scraper worker has exited the
\* items put on it are exactly those of results, each once.
C37_StoredAreAccepted ==
    AsyncStorage =>
        /\ \A c \in Rows :
              /\ Count(c, SentToStorage) <= Count(c, results)
              /\ c \in Range(discarded_items) => c \notin Range(SentToStorage)
              /\ outcome[c] # "data" => c \notin Range(SentToStorage)
        /\ AllWorkersExited =>
              \A c \in Rows :
                  /\ Count(c, SentToStorage) = Count(c, results)
                  /\ Count(c, results) = IF outcome[c] = "data" THEN 1 ELSE 0

C37_Witness ==
    /\ AsyncStorage
    /\ workers = 2
    /\ AllWorkersExited
    /\ Len(results) = 1
    /\ Len(discarded_items) = 1
    /\ Len(SentToStorage) = 1

\* the items of the batches save_items accepted
Accepted == Flatten(SeqFilter(backend, {b \in Range(backend) : b.ok}))

\* C38: the count a storage worker reports when it finishes is the number
\* of items whose batch the backend accepted; the items of a batch that
\* failed are not counted.
C38_SavedCountIsAccepted ==
    stPc = "done" => saved_count = Len(Accepted)

\* BrowserManager.close has run: the context was closed, then the driver
\* stopped, and nothing was done on a page after that
BrowserClosed ==
    /\ Len(pageLog) >= 2
    /\ pageLog[Len(pageLog) - 1] = CloseContext
    /\ pageLog[Len(pageLog)] = StopDriver

\* C39: when the producer fails reading the index table, no sentinel was
\* put and the run never goes on to wait for the scraper workers or the
\* storage worker; it ends with the error, with the browser closed, while
\* those tasks are still blocked on their empty queues.
C39_ProducerFailureEnds ==
    /\ [](prodPc = "failed" =>
             /\ prodSent = 0
             /\ item_queue = <<>>
             /\ mainPc \in {"await_producer", "aborted"}
             /\ runPc \in {"tasks", "raised"}
             /\ runPc = "raised" => BrowserClosed
             /\ \A w \in Workers : wPc[w] = "get"
             /\ ~json_data.written)
    /\ (prodPc = "failed" ~> (runPc = "raised" /\ BrowserClosed))

C39_Witness ==
    /\ prodPc = "failed"
    /\ runPc = "raised"
    /\ BrowserClosed
    /\ workers = 2
    /\ \A w \in Workers : wPc[w] = "get"
    /\ stPc = "get"
    /\ Len(PagesOf(pageLog, "new")) = 5

====
